---- MODULE Spec2Model ----
(***************************************************************************)
(* A model of the PostgreSQL storage adapter of portainer                  *)
(* (api/database/postgres): the connection (db.go), the transaction        *)
(* protocol built on one database transaction (tx.go), the payload codec   *)
(* (json.go) and the key-value store PostgresStore (store.go).             *)
(*                                                                         *)
(* The relational engine is modelled by what the SQL statements of the     *)
(* source do under PostgreSQL with lib/pq: a table with an integer primary *)
(* key, statement-level errors that put the transaction in the failed      *)
(* state, and commit/rollback of the rows a transaction wrote.             *)
(***************************************************************************)
EXTENDS Integers, Sequences, FiniteSets, TLC

\* Largest row id of a bucket in the model: ids are 1..MaxId.
MaxId == 2

Ids == 1..MaxId

\* The callers (threads) that may run UpdateTx/ViewTx.
Callers == {"c1", "c2"}

\* The bucket tables that exist (created with an integer primary key).
Buckets == {"test_table"}

\* The values callers store.
Objs == {"a", "b"}

VARIABLES
    DB,             \* connection.DB: "nil" (unset), "open" or "closed"
    ctx,            \* connection.ctx: "live" or "cancelled"
    EncryptionKey,  \* connection.EncryptionKey: "nil" or "key"
    isEncrypted,    \* connection.isEncrypted
    rows,           \* the committed rows: rows[b][id] is a payload or Absent
    threads,        \* the callers that exist in this run
    pc,             \* pc[c]: where caller c is inside UpdateTx
    txState,        \* txState[c]: state of the database transaction of c
    writes,         \* writes[c][b][id]: what c's open transaction wrote
    fnRes,          \* fnRes[c]: what the function passed to UpdateTx did
    called,         \* called[c]: which of tx.Commit/tx.Rollback UpdateTx called
    ret,            \* ret[c]: what the last UpdateTx call of c returned
    wrote,          \* wrote[c]: a statement of c's transaction changed a row
    nextID,         \* nextID[c]: the nextID local of Connection.CreateObject, 0: unset
    last,           \* the last operation's observable result
    codec,          \* the last MarshalObject/UnmarshalObject call and its result
    mu,             \* PostgresStore.mu: the sync.RWMutex
    storeTx,        \* storeTx[c]: caller c's position in PostgresStore.View/Update
    portainer_buckets   \* the committed rows of table portainer_buckets

vars == <<DB, ctx, EncryptionKey, isEncrypted, rows, threads, pc, txState,
          writes, fnRes, called, ret, wrote, nextID, last,
          codec, mu, storeTx, portainer_buckets>>

connVars == <<DB, ctx, EncryptionKey, isEncrypted>>
txVars == <<pc, txState, writes, fnRes, called, ret, wrote, nextID>>

\* What no operation of DbConnection and of its transactions changes.
restVars == <<threads, codec, mu, storeTx, portainer_buckets>>

\* What no operation of PostgresStore and of the codec changes.
dbVars == <<DB, ctx, rows, threads, txVars, last>>

-----------------------------------------------------------------------------
(* Values *)

\* Cell values of a table and of a transaction's write set.
Absent == [fmt |-> "absent", body |-> "-"]
NoWrite == [fmt |-> "nowrite", body |-> "-"]
Deleted == [fmt |-> "deleted", body |-> "-"]

\* Errors: a kind, and for the wrapped not-found error its bucket and key.
Err(kind) == [kind |-> kind, bucket |-> "-", key |-> <<>>]
NoErr == Err("nil")

ErrNoConnection == Err("ErrNoConnection")
ErrHaveEncryptedAndUnencrypted == Err("ErrHaveEncryptedAndUnencrypted")
ErrHaveEncryptedWithNoKey == Err("ErrHaveEncryptedWithNoKey")

\* dserrors.ErrObjectNotFound wrapped with %w, bucket and key.
ErrObjectNotFound(b, key) == [kind |-> "ErrObjectNotFound", bucket |-> b, key |-> key]

\* errors.Is(err, ErrObjectNotFound): the kind survives the %w wrapping.
IsErrObjectNotFound(e) == e.kind = "ErrObjectNotFound"

\* json.Marshal / json.Unmarshal of a stored object.
JsonMarshal(o) == [fmt |-> "json", body |-> o]

IsJson(d) == d.fmt = "json"

JsonUnmarshal(d) == d.body

\* A stored payload that is an AES-GCM envelope.
IsEnvelope(d) == d.fmt = "gcm"

\* A getEncryptionKey that returns the key held whatever the flag says.
getEncryptionKeyIgnoringFlag == EncryptionKey

\* getEncryptionKey: the key only while the encryption flag is on.
getEncryptionKey == IF ~isEncrypted THEN "nil" ELSE EncryptionKey

-----------------------------------------------------------------------------
(* Keys *)

RECURSIVE BigEndian(_, _)
\* binary.BigEndian.PutUint64: the k low bytes of n, most significant first.
BigEndian(n, k) == IF k = 0 THEN <<>> ELSE BigEndian(n \div 256, k - 1) \o <<n % 256>>

\* ConvertToKey: the 8 bytes of the id, big endian.
ConvertToKey(id) == BigEndian(id, 8)

RECURSIVE Itoa(_)
\* The decimal text of a non-negative integer, as bytes.
Itoa(n) == IF n < 10 THEN <<48 + n>> ELSE Itoa(n \div 10) \o <<48 + (n % 10)>>

IsDigits(s) == Len(s) > 0 /\ \A i \in 1..Len(s) : s[i] \in 48..57

RECURSIVE Atoi(_)
Atoi(s) == IF Len(s) = 0 THEN 0
           ELSE 10 * Atoi(SubSeq(s, 1, Len(s) - 1)) + (s[Len(s)] - 48)

\* The keys callers pass: ConvertToKey of an id, and the id's decimal text.
Keys == {ConvertToKey(i) : i \in Ids} \cup {Itoa(i) : i \in Ids}

\* The integer a text parameter denotes when the server compares it with the
\* integer id column ("id = $1", "VALUES ($1, ...)"); -1: invalid input syntax.
ParseColumnId(text) == IF IsDigits(text) THEN Atoi(text) ELSE -1

\* ParseColumnId over the keys of the model, computed once.
ColumnIdOf == [k \in Keys |-> ParseColumnId(k)]

ColumnId(key) == ColumnIdOf[key]

-----------------------------------------------------------------------------
(* The payload codec (json.go), on bytes *)

\* Go values: a kind and the value's content.  A struct stands for a type
\* with one integer field Id.
Bool(b) == [t |-> "bool", v |-> <<IF b THEN 1 ELSE 0>>]
Integer(n) == [t |-> "int", v |-> <<n>>]
Struct(id) == [t |-> "struct", v |-> <<id>>]
String(bytes) == [t |-> "string", v |-> bytes]
NoValue == [t |-> "none", v |-> <<>>]

\* The zero value a destination of kind d holds before decoding.
Zero(d) == IF d = "bool" THEN Bool(FALSE)
           ELSE IF d = "int" THEN Integer(0)
           ELSE IF d = "struct" THEN Struct(0)
           ELSE String(<<>>)

\* The texts "true", "false", "null", and the frame of {"Id":n}.
TrueText == <<116, 114, 117, 101>>
FalseText == <<102, 97, 108, 115, 101>>
NullText == <<110, 117, 108, 108>>
IdOpen == <<123, 34, 73, 100, 34, 58>>
IdClose == <<125>>

\* json.Encoder.Encode without the trailing newline (SetAppendNewline(false)).
Encode(object) ==
    IF object.t = "bool" THEN (IF object.v[1] = 1 THEN TrueText ELSE FalseText)
    ELSE IF object.t = "int" THEN Itoa(object.v[1])
    ELSE IF object.t = "struct" THEN IdOpen \o Itoa(object.v[1]) \o IdClose
    ELSE <<34>> \o object.v \o <<34>>

\* A JSON number: digits without a leading zero.
IsNumberText(data) == IsDigits(data) /\ (Len(data) = 1 \/ data[1] # 48)

\* A JSON string without escapes: quotes around bytes that are neither a
\* quote, a backslash nor a control character.
IsStringText(data) ==
    /\ Len(data) >= 2 /\ data[1] = 34 /\ data[Len(data)] = 34
    /\ \A i \in 2..(Len(data) - 1) : data[i] >= 32 /\ data[i] # 34 /\ data[i] # 92

\* The JSON object {"Id":n}.
IsStructText(data) ==
    /\ Len(data) > Len(IdOpen) + Len(IdClose)
    /\ SubSeq(data, 1, Len(IdOpen)) = IdOpen
    /\ SubSeq(data, Len(data), Len(data)) = IdClose
    /\ IsNumberText(SubSeq(data, Len(IdOpen) + 1, Len(data) - 1))

\* The JSON value a text denotes; kind "invalid" when it is no JSON text.
Parse(data) ==
    IF data = TrueText THEN Bool(TRUE)
    ELSE IF data = FalseText THEN Bool(FALSE)
    ELSE IF data = NullText THEN [t |-> "null", v |-> <<>>]
    ELSE IF IsNumberText(data) THEN Integer(Atoi(data))
    ELSE IF IsStringText(data) THEN String(SubSeq(data, 2, Len(data) - 1))
    ELSE IF IsStructText(data)
         THEN Struct(Atoi(SubSeq(data, Len(IdOpen) + 1, Len(data) - 1)))
    ELSE [t |-> "invalid", v |-> <<>>]

\* json.Unmarshal(data, object) into a destination of kind d holding its zero
\* value: e is the error, out the destination afterwards.  null leaves the
\* destination as it is; a value of another kind is a type error.
Unmarshal(data, d) ==
    LET val == Parse(data) IN
    IF val.t = "invalid" THEN [e |-> "invalid JSON", out |-> Zero(d)]
    ELSE IF val.t = "null" THEN [e |-> "nil", out |-> Zero(d)]
    ELSE IF val.t # d THEN [e |-> "cannot unmarshal", out |-> Zero(d)]
    ELSE [e |-> "nil", out |-> val]

\* gcm.NonceSize() and gcm.Overhead() of the standard AES-GCM.
NonceSize == 12
TagSize == 16

\* AES-GCM is modelled as a stream cipher with an authentication tag that has
\* the two properties the codec relies on: Open inverts Seal under the same
\* key and nonce, and Open rejects every envelope that differs from a sealed
\* one in one byte.

\* Byte i of the key stream of a key and a nonce.
KeyStream(passphrase, nonce, i) ==
    ((IF passphrase = "key" THEN 7 ELSE 11) + nonce[1] + 3 * i) % 256

RECURSIVE SumFrom(_, _, _)
\* The sum of the bytes of s at positions j, j + TagSize, ...
SumFrom(s, j, step) == IF j > Len(s) THEN 0 ELSE s[j] + SumFrom(s, j + step, step)

\* The authentication tag of nonce and ciphertext under a key.
Tag(passphrase, sealed) ==
    [j \in 1..TagSize |->
        (KeyStream(passphrase, sealed, j) + Len(sealed) + SumFrom(sealed, j, TagSize)) % 256]

\* gcm.Seal(nonce, nonce, plaintext, nil): nonce || ciphertext || tag.
gcmSeal(passphrase, nonce, plaintext) ==
    LET ct == [i \in 1..Len(plaintext) |->
                    (plaintext[i] + KeyStream(passphrase, nonce, i)) % 256]
    IN  nonce \o ct \o Tag(passphrase, nonce \o ct)

\* An Open that returns the plaintext without comparing the tag.
gcmOpenWithoutTagCheck(passphrase, nonce, ciphertext) ==
    IF Len(ciphertext) < TagSize THEN [ok |-> FALSE, plaintext |-> <<>>]
    ELSE LET n == Len(ciphertext) - TagSize IN
         [ok |-> TRUE,
          plaintext |-> [i \in 1..n |->
                (ciphertext[i] + 256 - KeyStream(passphrase, nonce, i)) % 256]]

\* gcm.Open(nil, nonce, ciphertext, nil): the plaintext when the tag at the
\* end of ciphertext is the tag of what precedes it.
gcmOpen(passphrase, nonce, ciphertext) ==
    IF Len(ciphertext) < TagSize THEN [ok |-> FALSE, plaintext |-> <<>>]
    ELSE LET n == Len(ciphertext) - TagSize
             ct == SubSeq(ciphertext, 1, n)
         IN  IF SubSeq(ciphertext, n + 1, Len(ciphertext)) # Tag(passphrase, nonce \o ct)
             THEN [ok |-> FALSE, plaintext |-> <<>>]
             ELSE [ok |-> TRUE,
                   plaintext |-> [i \in 1..n |->
                        (ct[i] + 256 - KeyStream(passphrase, nonce, i)) % 256]]

\* A seal that leaves the nonce out of its output.
encryptWithoutNonce(plaintext, passphrase, nonce) ==
    SubSeq(gcmSeal(passphrase, nonce, plaintext), NonceSize + 1,
           NonceSize + Len(plaintext) + TagSize)

\* encrypt with the nonce it read from rand.Reader.
encrypt(plaintext, passphrase, nonce) == gcmSeal(passphrase, nonce, plaintext)

\* decrypt without the length check: slicing a short input panics.
decryptWithoutLengthCheck(encrypted, passphrase) ==
    IF encrypted = FalseText THEN [data |-> FalseText, err |-> "nil"]
    ELSE IF Len(encrypted) < NonceSize
         THEN [data |-> encrypted, err |-> "panic: slice bounds out of range"]
    ELSE LET o == gcmOpen(passphrase, SubSeq(encrypted, 1, NonceSize),
                       SubSeq(encrypted, NonceSize + 1, Len(encrypted)))
         IN  IF ~o.ok THEN [data |-> encrypted, err |-> "Error decrypting text"]
             ELSE [data |-> o.plaintext, err |-> "nil"]

\* decrypt.
decrypt(encrypted, passphrase) ==
    IF encrypted = FalseText THEN [data |-> FalseText, err |-> "nil"]
    ELSE IF Len(encrypted) < NonceSize
         THEN [data |-> encrypted, err |-> "errEncryptedStringTooShort"]
    ELSE LET o == gcmOpen(passphrase, SubSeq(encrypted, 1, NonceSize),
                       SubSeq(encrypted, NonceSize + 1, Len(encrypted)))
         IN  IF ~o.ok THEN [data |-> encrypted, err |-> "Error decrypting text"]
             ELSE [data |-> o.plaintext, err |-> "nil"]

\* errors.Wrap of github.com/pkg/errors: nil when err is nil, else an error
\* whose cause is err.
Wrap(err, message) == IF err = "nil" THEN "nil" ELSE err

\* What MarshalObject writes to its buffer before encryption: a string as it
\* is, any other value in JSON.
PlainEncoding(object) == IF object.t = "string" THEN object.v ELSE Encode(object)

\* MarshalObject, with the nonce encrypt would draw.
MarshalObject(object, nonce) ==
    IF getEncryptionKey = "nil" THEN PlainEncoding(object)
    ELSE encrypt(PlainEncoding(object), getEncryptionKey, nonce)

\* UnmarshalObject into a destination of kind d: the error returned, the
\* destination afterwards, and the error e of json.Unmarshal.
UnmarshalObject(data, d) ==
    LET dec == IF getEncryptionKey # "nil" THEN decrypt(data, getEncryptionKey)
               ELSE [data |-> data, err |-> "nil"]
        u == Unmarshal(dec.data, d)
    IN  IF dec.err # "nil"
        THEN [err |-> Wrap(dec.err, "Failed decrypting object"), out |-> Zero(d),
              e |-> "-"]
        ELSE IF u.e # "nil"
             THEN IF d # "string"
                  THEN [err |-> Wrap(dec.err, u.e), out |-> u.out, e |-> u.e]
                  ELSE [err |-> dec.err, out |-> String(dec.data), e |-> u.e]
        ELSE [err |-> dec.err, out |-> u.out, e |-> "nil"]

-----------------------------------------------------------------------------
(* The result record of the last operation *)

NoOp == [op |-> "none", err |-> NoErr, obj |-> "-", id |-> 0, prev |-> 0, conn |-> "-",
         result |-> FALSE, haveUnencrypted |-> FALSE, haveEncrypted |-> FALSE,
         visited |-> <<>>]

\* The result of a transaction operation.
OpResult(op, e, obj, id) ==
    [NoOp EXCEPT !.op = op, !.err = e, !.obj = obj, !.id = id]

Pending == Err("pending")
EmptyWrites == [b \in Buckets |-> [i \in Ids |-> NoWrite]]

\* No codec call yet.
NoCodec == [op |-> "none", object |-> NoValue, data |-> <<>>, sealed |-> "-",
            tampered |-> FALSE, flag |-> FALSE, held |-> "nil", dest |-> "-",
            out |-> NoValue, err |-> "nil", e |-> "-", result |-> FALSE]

\* The zero sync.RWMutex: no writer, no readers, no caller waiting in Lock.
Unlocked == [writer |-> "none", readers |-> {}, waiting |-> {}]

\* A caller outside View and Update.
NoStoreTx == [pc |-> "idle", writeable |-> FALSE, work |-> {}, locks |-> {},
              res |-> [op |-> "none", bucket_name |-> "-", key |-> "-", value |-> "-",
                       err |-> "nil"],
              ret |-> "-"]

\* The codec and the PostgresStore before their first call.
RestInit ==
    /\ codec = NoCodec
    /\ mu = Unlocked
    /\ storeTx = [c \in Callers |-> NoStoreTx]
    /\ portainer_buckets = {}

Init ==
    /\ RestInit
    /\ DB = "nil"
    /\ ctx = "live"
    /\ EncryptionKey \in {"nil", "key"}
    /\ isEncrypted = FALSE
    /\ rows = [b \in Buckets |-> [i \in Ids |-> Absent]]
    /\ threads = {"c1"}
    /\ pc = [c \in Callers |-> "idle"]
    /\ txState = [c \in Callers |-> "none"]
    /\ writes = [c \in Callers |-> EmptyWrites]
    /\ fnRes = [c \in Callers |-> Pending]
    /\ called = [c \in Callers |-> "none"]
    /\ ret = [c \in Callers |-> Pending]
    /\ wrote = [c \in Callers |-> FALSE]
    /\ nextID = [c \in Callers |-> 0]
    /\ last = NoOp

\* The result record kept after a connection-level call that changes nothing
\* else: the call's own record res when no transaction is running; while one
\* is running, the record of that transaction's last operation stays.
Observed(res) == IF \A c \in threads : pc[c] = "idle" THEN res ELSE last

-----------------------------------------------------------------------------
(* Connection lifecycle *)

\* An Open that stores the handle as soon as the connect succeeded, before the
\* ping.
OpenStoringBeforePing(connectOk) ==
    /\ DB' = IF connectOk THEN "open" ELSE DB
    /\ last' = Observed([NoOp EXCEPT !.op = "Open",
                 !.err = IF ~connectOk THEN Err("failed to connect to database")
                         ELSE IF ctx # "live"
                              THEN Err("failed to verify database connection")
                              ELSE NoErr])
    /\ UNCHANGED <<ctx, EncryptionKey, isEncrypted, rows, restVars, txVars>>

\* Open: connect, configure the pool, ping with the connection's context.
Open(connectOk) ==
    /\ DB' = IF connectOk /\ ctx = "live" THEN "open" ELSE DB
    /\ last' = Observed([NoOp EXCEPT !.op = "Open",
                 !.err = IF ~connectOk THEN Err("failed to connect to database")
                         ELSE IF ctx # "live"
                              THEN Err("failed to verify database connection")
                              ELSE NoErr])
    /\ UNCHANGED <<ctx, EncryptionKey, isEncrypted, rows, restVars, txVars>>

\* NewConnection: a connection with a fresh context and no handle, then Open;
\* when Open fails the context is cancelled and the caller gets (nil, err).
\* The context is fresh, so the ping fails only with the connect.
NewConnection(connectOk) ==
    /\ DB = "nil"
    /\ ctx = "live"
    /\ DB' = IF connectOk THEN "open" ELSE "nil"
    /\ ctx' = IF connectOk THEN "live" ELSE "cancelled"
    /\ last' = [NoOp EXCEPT !.op = "NewConnection",
                 !.err = IF connectOk THEN NoErr
                         ELSE Err("failed to connect to database"),
                 !.conn = IF connectOk THEN "conn" ELSE "nil"]
    /\ UNCHANGED <<EncryptionKey, isEncrypted, rows, restVars, txVars>>

\* A Close that closes the pool and leaves the context alone.
CloseWithoutCancel ==
    /\ DB' = IF DB = "nil" THEN "nil" ELSE "closed"
    /\ last' = [NoOp EXCEPT !.op = "Close"]
    /\ UNCHANGED <<ctx, EncryptionKey, isEncrypted, rows, restVars, txVars>>

\* Close: cancel the context, close the pool.  The rollback database/sql
\* performs on every transaction begun with the cancelled context is taken
\* together with the cancellation.
Close ==
    /\ ctx' = "cancelled"
    /\ DB' = IF DB = "nil" THEN "nil" ELSE "closed"
    /\ txState' = [c \in Callers |->
                     IF txState[c] \in {"active", "failed"} THEN "cancelled"
                     ELSE txState[c]]
    /\ writes' = [c \in Callers |-> EmptyWrites]
    /\ last' = [NoOp EXCEPT !.op = "Close"]
    /\ UNCHANGED <<EncryptionKey, isEncrypted, rows, restVars, pc, fnRes, called, ret,
                   wrote, nextID>>

SetEncrypted(flag) ==
    /\ isEncrypted' = flag
    /\ UNCHANGED <<DB, ctx, EncryptionKey, rows, restVars, txVars, last>>

\* A switch that asks for a migration whenever only the unencrypted marker
\* exists, without looking at the key.
MigrationSwitchIgnoringKey(haveUnencrypted, haveEncrypted, key) ==
    IF haveUnencrypted /\ haveEncrypted
        THEN [result |-> FALSE, err |-> ErrHaveEncryptedAndUnencrypted]
    ELSE IF haveUnencrypted
        THEN [result |-> TRUE, err |-> NoErr]
    ELSE IF haveEncrypted /\ key = "nil"
        THEN [result |-> FALSE, err |-> ErrHaveEncryptedWithNoKey]
    ELSE [result |-> FALSE, err |-> NoErr]

\* The switch of NeedsEncryptionMigration over the two marker tables and the key.
MigrationSwitch(haveUnencrypted, haveEncrypted, key) ==
    IF haveUnencrypted /\ haveEncrypted
        THEN [result |-> FALSE, err |-> ErrHaveEncryptedAndUnencrypted]
    ELSE IF haveUnencrypted /\ key # "nil"
        THEN [result |-> TRUE, err |-> NoErr]
    ELSE IF haveEncrypted /\ key = "nil"
        THEN [result |-> FALSE, err |-> ErrHaveEncryptedWithNoKey]
    ELSE [result |-> FALSE, err |-> NoErr]

\* NeedsEncryptionMigration: haveUnencrypted and haveEncrypted are what the two
\* existence queries find; queryErr names the query that fails, if one does.
NeedsEncryptionMigration(haveUnencrypted, haveEncrypted, queryErr) ==
    /\ DB = "closed" => queryErr = "unencrypted"
    /\ LET r == IF DB = "nil"
                    THEN [result |-> FALSE, err |-> ErrNoConnection]
                 ELSE IF queryErr = "unencrypted"
                    THEN [result |-> FALSE,
                          err |-> Err("failed to check unencrypted table")]
                 ELSE IF queryErr = "encrypted"
                    THEN [result |-> FALSE,
                          err |-> Err("failed to check encrypted table")]
                 ELSE MigrationSwitch(haveUnencrypted, haveEncrypted, EncryptionKey)
       IN last' = Observed([NoOp EXCEPT !.op = "NeedsEncryptionMigration",
                      !.result = r.result, !.err = r.err,
                      !.haveUnencrypted = haveUnencrypted,
                      !.haveEncrypted = haveEncrypted])
    /\ UNCHANGED <<connVars, rows, restVars, txVars>>

\* A method of the embedded *sqlx.DB called while connection.DB is nil: the
\* nil pointer dereference is a run-time panic that reaches the caller.
PanicNilDB == Err("panic: nil pointer dereference")

\* BackupTo: the nil check, then the schema query with the connection's context.
BackupTo ==
    /\ last' = Observed([NoOp EXCEPT !.op = "BackupTo",
                 !.err = IF DB = "nil" THEN ErrNoConnection
                         ELSE IF DB = "closed" \/ ctx = "cancelled"
                              THEN Err("failed to query schema")
                              ELSE NoErr])
    /\ UNCHANGED <<connVars, rows, restVars, txVars>>

\* BackupMetadata: connection.DB.Query with no nil check.
BackupMetadata ==
    /\ last' = Observed([NoOp EXCEPT !.op = "BackupMetadata",
                 !.err = IF DB = "nil" THEN PanicNilDB
                         ELSE IF DB = "closed" THEN Err("sql: database is closed")
                              ELSE NoErr])
    /\ UNCHANGED <<connVars, rows, restVars, txVars>>

\* RestoreMetadata(s): entries tells what the map s holds: "none" (empty),
\* "other" (a value that is no float64: logged and skipped) or "float" (a
\* value for which ALTER SEQUENCE is executed; its error is only logged).
RestoreMetadata(entries) ==
    /\ last' = Observed([NoOp EXCEPT !.op = "RestoreMetadata",
                 !.err = IF entries = "float" /\ DB = "nil" THEN PanicNilDB
                         ELSE NoErr])
    /\ UNCHANGED <<connVars, rows, restVars, txVars>>

-----------------------------------------------------------------------------
(* UpdateTx / ViewTx *)

\* UpdateTx up to the call of fn: the nil check and BeginTxx with the
\* connection's context.
UpdateTx(c) ==
    /\ c \in threads
    /\ pc[c] = "idle"
    /\ IF DB = "nil" THEN
          /\ ret' = [ret EXCEPT ![c] = ErrNoConnection]
          /\ txState' = [txState EXCEPT ![c] = "none"]
          /\ pc' = pc
       ELSE IF DB = "closed" \/ ctx = "cancelled" THEN
          /\ ret' = [ret EXCEPT ![c] = Err("failed to begin transaction")]
          /\ txState' = [txState EXCEPT ![c] = "none"]
          /\ pc' = pc
       ELSE
          /\ ret' = [ret EXCEPT ![c] = Pending]
          /\ txState' = [txState EXCEPT ![c] = "active"]
          /\ pc' = [pc EXCEPT ![c] = "fn"]
    /\ writes' = [writes EXCEPT ![c] = EmptyWrites]
    /\ fnRes' = [fnRes EXCEPT ![c] = Pending]
    /\ called' = [called EXCEPT ![c] = "none"]
    /\ wrote' = [wrote EXCEPT ![c] = FALSE]
    /\ nextID' = [nextID EXCEPT ![c] = 0]
    /\ UNCHANGED <<connVars, rows, restVars, last>>

\* A ViewTx whose transaction rejects every statement.
ViewTxRejecting(c) ==
    /\ c \in threads
    /\ pc[c] = "idle"
    /\ DB = "open"
    /\ ctx = "live"
    /\ ret' = [ret EXCEPT ![c] = Pending]
    /\ txState' = [txState EXCEPT ![c] = "failed"]
    /\ pc' = [pc EXCEPT ![c] = "fn"]
    /\ writes' = [writes EXCEPT ![c] = EmptyWrites]
    /\ fnRes' = [fnRes EXCEPT ![c] = Pending]
    /\ called' = [called EXCEPT ![c] = "none"]
    /\ wrote' = [wrote EXCEPT ![c] = FALSE]
    /\ nextID' = [nextID EXCEPT ![c] = 0]
    /\ UNCHANGED <<connVars, rows, restVars, last>>

\* ViewTx is UpdateTx.
ViewTx(c) == UpdateTx(c)

\* The rows of the database with the write set w of a transaction applied.
Apply(w) ==
    [b \in Buckets |-> [i \in Ids |->
        IF w[b][i] = NoWrite THEN rows[b][i]
        ELSE IF w[b][i] = Deleted THEN Absent
        ELSE w[b][i]]]

\* A rollback that persists the write set.
RollbackKeepingWrites(c) ==
    /\ called' = [called EXCEPT ![c] = "rollback"]
    /\ txState' = [txState EXCEPT ![c] =
                      IF @ \in {"active", "failed"} THEN "rolledback" ELSE @]
    /\ writes' = [writes EXCEPT ![c] = EmptyWrites]
    /\ rows' = Apply(writes[c])

\* tx.Rollback(): the write set is dropped.
Rollback(c) ==
    /\ called' = [called EXCEPT ![c] = "rollback"]
    /\ txState' = [txState EXCEPT ![c] =
                      IF @ \in {"active", "failed"} THEN "rolledback" ELSE @]
    /\ writes' = [writes EXCEPT ![c] = EmptyWrites]
    /\ rows' = rows

\* What tx.Rollback() returns: an error when the transaction has already
\* been rolled back by the cancellation of the connection's context.
RollbackErr(c) ==
    IF txState[c] = "cancelled"
    THEN Err("sql: transaction has already been committed or rolled back")
    ELSE NoErr

\* An UpdateTx that returns the error of a failed rollback.
ReturnRollbackError(e, rbErr) == IF rbErr # NoErr THEN rbErr ELSE e

\* What UpdateTx returns after fn returned e and tx.Rollback() returned
\* rbErr: rbErr is logged, e is returned.
ReturnAfterRollback(e, rbErr) == e

\* fn returns the error e: roll back (a rollback error is only logged) and
\* return e.
FnReturnsError(c, e) ==
    /\ c \in threads
    /\ pc[c] = "fn"
    /\ e # NoErr
    /\ fnRes' = [fnRes EXCEPT ![c] = e]
    /\ Rollback(c)
    /\ ret' = [ret EXCEPT ![c] = ReturnAfterRollback(e, RollbackErr(c))]
    /\ pc' = [pc EXCEPT ![c] = "idle"]
    /\ last' = NoOp
    /\ UNCHANGED <<connVars, restVars, wrote, nextID>>

\* A recover that leaves the transaction as it is before re-raising.
FnPanicsWithoutRollback(c) ==
    /\ c \in threads
    /\ pc[c] = "fn"
    /\ fnRes' = [fnRes EXCEPT ![c] = Err("panic")]
    /\ pc' = [pc EXCEPT ![c] = "repanic"]
    /\ last' = NoOp
    /\ UNCHANGED <<connVars, rows, restVars, txState, writes, called, ret, wrote,
                   nextID>>

\* fn panics: the deferred function recovers the panic and calls tx.Rollback().
FnPanics(c) ==
    /\ c \in threads
    /\ pc[c] = "fn"
    /\ fnRes' = [fnRes EXCEPT ![c] = Err("panic")]
    /\ Rollback(c)
    /\ pc' = [pc EXCEPT ![c] = "repanic"]
    /\ last' = NoOp
    /\ UNCHANGED <<connVars, restVars, ret, wrote, nextID>>

\* The deferred function re-raises the panic: panic(p).
Repanic(c) ==
    /\ c \in threads
    /\ pc[c] = "repanic"
    /\ ret' = [ret EXCEPT ![c] = Err("panic")]
    /\ pc' = [pc EXCEPT ![c] = "idle"]
    /\ UNCHANGED <<connVars, rows, restVars, txState, writes, fnRes, called, wrote,
                   nextID, last>>

\* What tx.Commit() returns.
CommitErr(c) ==
    IF txState[c] = "cancelled" \/ ctx = "cancelled" THEN Err("context canceled")
    ELSE IF txState[c] = "failed" THEN Err("ErrInFailedTransaction")
    ELSE NoErr

\* A commit that reports what tx.Commit() reports and persists nothing.
CommitLosingWrites(c) ==
    /\ called' = [called EXCEPT ![c] = "commit"]
    /\ rows' = rows
    /\ txState' = [txState EXCEPT ![c] =
                      IF CommitErr(c) = NoErr THEN "committed"
                      ELSE IF @ = "failed" THEN "rolledback" ELSE @]
    /\ writes' = [writes EXCEPT ![c] = EmptyWrites]

\* A commit that leaves the transaction open when it fails.
CommitLeavingOpen(c) ==
    /\ called' = [called EXCEPT ![c] = "commit"]
    /\ rows' = IF CommitErr(c) = NoErr THEN Apply(writes[c]) ELSE rows
    /\ txState' = [txState EXCEPT ![c] = IF CommitErr(c) = NoErr THEN "committed" ELSE @]
    /\ writes' = [writes EXCEPT ![c] = EmptyWrites]

\* tx.Commit(): the commit of a failed transaction is a rollback that
\* reports an error.
Commit(c) ==
    /\ called' = [called EXCEPT ![c] = "commit"]
    /\ rows' = IF CommitErr(c) = NoErr THEN Apply(writes[c]) ELSE rows
    /\ txState' = [txState EXCEPT ![c] =
                      IF CommitErr(c) = NoErr THEN "committed"
                      ELSE IF @ = "failed" THEN "rolledback" ELSE @]
    /\ writes' = [writes EXCEPT ![c] = EmptyWrites]

\* fn returns nil: return tx.Commit().
FnReturnsNil(c) ==
    /\ c \in threads
    /\ pc[c] = "fn"
    /\ fnRes' = [fnRes EXCEPT ![c] = NoErr]
    /\ Commit(c)
    /\ ret' = [ret EXCEPT ![c] = CommitErr(c)]
    /\ pc' = [pc EXCEPT ![c] = "idle"]
    /\ last' = NoOp
    /\ UNCHANGED <<connVars, restVars, wrote, nextID>>

-----------------------------------------------------------------------------
(* The transaction protocol: the operations fn calls on its DbTransaction *)

\* The row id of bucket b as transaction c sees it: its own write, or else
\* the committed row.
Cell(c, b, id) ==
    IF writes[c][b][id] = NoWrite THEN rows[b][id]
    ELSE IF writes[c][b][id] = Deleted THEN Absent
    ELSE writes[c][b][id]

\* sql.ErrTxDone.
ErrTxDone == Err("sql: transaction has already been committed or rolled back")

\* A transaction that still takes statements after Commit or Rollback.
TxErrIgnoringDone(c) ==
    IF txState[c] = "cancelled" THEN Err("sql: transaction has already been rolled back")
    ELSE IF txState[c] = "failed" THEN Err("current transaction is aborted")
    ELSE NoErr

\* The error of any statement on a transaction that can no longer run one.
TxErr(c) ==
    IF txState[c] = "cancelled" THEN Err("sql: transaction has already been rolled back")
    ELSE IF txState[c] = "failed" THEN Err("current transaction is aborted")
    ELSE IF txState[c] \in {"committed", "rolledback"} THEN ErrTxDone
    ELSE NoErr

\* The transactions that have ended: committed, rolled back, or rolled back
\* by the cancellation of the connection's context.
Done == {"committed", "rolledback", "cancelled"}

\* The DbTransaction of c can be called: fn is running, or UpdateTx has
\* returned and the caller kept the handle fn was given.
HasHandle(c) == pc[c] = "fn" \/ (pc[c] = "idle" /\ txState[c] \in Done)

\* No row lock: a statement never waits for another transaction.
NoRowLock(c, b, id) == FALSE

\* Another open transaction holds an uncommitted write of row id of b:
\* a statement writing that row waits for it.
Locked(c, b, id) ==
    \E d \in threads \ {c} : pc[d] # "idle" /\ writes[d][b][id] # NoWrite

\* One statement of c's transaction: e is the statement's SQL error, w the
\* write set after it, res what the operation reports to fn.  A statement
\* error puts the transaction in the failed state: every later statement
\* fails and nothing it wrote can be committed.
Statement(c, e, w, res) ==
    /\ c \in threads
    /\ HasHandle(c)
    /\ writes' = [writes EXCEPT ![c] = IF e # NoErr THEN EmptyWrites ELSE w]
    /\ txState' = [txState EXCEPT ![c] =
                      IF e # NoErr /\ @ = "active" THEN "failed" ELSE @]
    /\ wrote' = [wrote EXCEPT ![c] = @ \/ (e = NoErr /\ w # writes[c])]
    /\ last' = res
    /\ UNCHANGED <<connVars, rows, restVars, pc, fnRes, called, ret, nextID>>

\* An INSERT that conflicts with any row of the table the transaction sees.
InsertErrOnAnyRow(c, b, id) ==
    IF TxErr(c) # NoErr THEN TxErr(c)
    ELSE IF id = -1 THEN Err("invalid input syntax for type integer")
    ELSE IF \E i \in Ids : Cell(c, b, i) # Absent
        THEN Err("duplicate key value violates unique constraint")
    ELSE NoErr

\* An INSERT without the primary key's uniqueness check (an upsert).
InsertErrWithoutUnique(c, b, id) ==
    IF TxErr(c) # NoErr THEN TxErr(c)
    ELSE IF id = -1 THEN Err("invalid input syntax for type integer")
    ELSE NoErr

\* The error of "INSERT INTO b (id, data) VALUES ($1, $2)"; id = -1 is a
\* parameter that is no integer.
InsertErr(c, b, id) ==
    IF TxErr(c) # NoErr THEN TxErr(c)
    ELSE IF id = -1 THEN Err("invalid input syntax for type integer")
    ELSE IF Cell(c, b, id) # Absent
        THEN Err("duplicate key value violates unique constraint")
    ELSE NoErr

\* The INSERT of the three create operations.
Insert(c, op, b, id, data, seq) ==
    LET e == InsertErr(c, b, id) IN
    /\ id \in Ids \cup {-1}
    /\ e = NoErr => ~Locked(c, b, id)
    /\ Statement(c, e,
                 IF e = NoErr THEN [writes[c] EXCEPT ![b][id] = data] ELSE writes[c],
                 OpResult(op, e, "-", seq))

CreateObjectWithId(c, b, id, obj) ==
    Insert(c, "CreateObjectWithId", b, id, JsonMarshal(obj), 0)

CreateObjectWithStringId(c, b, key, obj) ==
    Insert(c, "CreateObjectWithStringId", b, ColumnId(key), JsonMarshal(obj), 0)

Max(S) == CHOOSE x \in S : \A y \in S : y <= x

\* SELECT COALESCE(MAX(id), 0) + 1 FROM b, as transaction c sees b.
NextId(c, b) == Max({0} \cup {i \in Ids : Cell(c, b, i) # Absent}) + 1

\* A table name for which no table exists.
NoTable == "no_such_table"

\* What Connection.GetNextIdentifier returns on a connection with a handle:
\* the query runs on the pool with the connection's context and sees the
\* committed rows; 1 when it fails.
ConnectionNextIdentifier(b) ==
    IF b \notin Buckets \/ DB = "closed" \/ ctx = "cancelled" THEN 1
    ELSE Max({0} \cup {i \in Ids : rows[b][i] # Absent}) + 1

\* Connection.GetNextIdentifier: connection.GetContext with no nil check.
ConnectionGetNextIdentifier(b) ==
    /\ last' = Observed([NoOp EXCEPT !.op = "Connection.GetNextIdentifier",
                 !.id = IF DB = "nil" THEN 0 ELSE ConnectionNextIdentifier(b),
                 !.err = IF DB = "nil" THEN PanicNilDB ELSE NoErr])
    /\ UNCHANGED <<connVars, rows, restVars, txVars>>

\* DbTransaction.CreateObject: fn receives the next sequence value and
\* returns the id and the object to insert.
CreateObject(c, b, id, obj) ==
    IF TxErr(c) # NoErr
    THEN Statement(c, TxErr(c), writes[c],
                   OpResult("CreateObject", TxErr(c), "-", 0))
    ELSE Insert(c, "CreateObject", b, id, JsonMarshal(obj), 0)

\* DbTransaction.GetNextIdentifier: 0 when the query fails.  The record keeps
\* in prev what the call just before returned, when that was a
\* GetNextIdentifier too.
GetNextIdentifier(c, b) ==
    Statement(c, TxErr(c), writes[c],
              [NoOp EXCEPT !.op = "GetNextIdentifier",
                           !.id = IF TxErr(c) # NoErr THEN 0 ELSE NextId(c, b),
                           !.prev = IF last.op = "GetNextIdentifier"
                                    THEN last.id ELSE 0])

\* The SQL error of a statement with "WHERE id = $1" and the text key.
KeyErr(c, key) ==
    IF TxErr(c) # NoErr THEN TxErr(c)
    ELSE IF ColumnId(key) = -1 THEN Err("invalid input syntax for type integer")
    ELSE NoErr

\* The row "WHERE id = $1" selects, Absent when there is none.
Row(c, b, key) ==
    IF ColumnId(key) \in Ids THEN Cell(c, b, ColumnId(key)) ELSE Absent

\* What DbTransaction.GetObject returns and decodes.
GetObjectResult(c, b, key) ==
    IF KeyErr(c, key) # NoErr
        THEN OpResult("GetObject", KeyErr(c, key), "-", 0)
    ELSE IF Row(c, b, key) = Absent
        THEN OpResult("GetObject", ErrObjectNotFound(b, key), "-", 0)
    ELSE IF ~IsJson(Row(c, b, key))
        THEN OpResult("GetObject", Err("invalid character"), "-", 0)
    ELSE OpResult("GetObject", NoErr, JsonUnmarshal(Row(c, b, key)), 0)

GetObject(c, b, key) ==
    Statement(c, KeyErr(c, key), writes[c], GetObjectResult(c, b, key))

\* UPDATE b SET data = $1 WHERE id = $2: no row, no error.
UpdateObject(c, b, key, obj) ==
    LET e == KeyErr(c, key)
        hit == e = NoErr /\ Row(c, b, key) # Absent
    IN
    /\ hit => ~Locked(c, b, ColumnId(key))
    /\ Statement(c, e,
                 IF hit THEN [writes[c] EXCEPT ![b][ColumnId(key)] = JsonMarshal(obj)]
                 ELSE writes[c],
                 OpResult("UpdateObject", e, "-", 0))

\* DELETE FROM b WHERE id = $1: no row, no error.
DeleteObject(c, b, key) ==
    LET e == KeyErr(c, key)
        hit == e = NoErr /\ Row(c, b, key) # Absent
    IN
    /\ hit => ~Locked(c, b, ColumnId(key))
    /\ Statement(c, e,
                 IF hit THEN [writes[c] EXCEPT ![b][ColumnId(key)] = Deleted]
                 ELSE writes[c],
                 OpResult("DeleteObject", e, "-", 0))

-----------------------------------------------------------------------------

\* The operations fn may call on its transaction.
TxOperation(c) ==
    \/ \E b \in Buckets, id \in Ids, obj \in Objs : CreateObjectWithId(c, b, id, obj)
    \/ \E b \in Buckets, key \in Keys, obj \in Objs :
            CreateObjectWithStringId(c, b, key, obj)
    \/ \E b \in Buckets, id \in Ids, obj \in Objs : CreateObject(c, b, id, obj)
    \/ \E b \in Buckets : GetNextIdentifier(c, b)
    \/ \E b \in Buckets, key \in Keys : GetObject(c, b, key)
    \/ \E b \in Buckets, key \in Keys, obj \in Objs : UpdateObject(c, b, key, obj)
    \/ \E b \in Buckets, key \in Keys : DeleteObject(c, b, key)

Next ==
    \/ \E ok \in BOOLEAN : NewConnection(ok)
    \/ \E ok \in BOOLEAN : Open(ok)
    \/ Close
    \/ \E flag \in BOOLEAN : SetEncrypted(flag)
    \/ \E u, e \in BOOLEAN, q \in {"none", "unencrypted", "encrypted"} :
            NeedsEncryptionMigration(u, e, q)
    \/ BackupTo
    \/ BackupMetadata
    \/ \E entries \in {"none", "other", "float"} : RestoreMetadata(entries)
    \/ \E b \in Buckets \cup {NoTable} : ConnectionGetNextIdentifier(b)
    \/ \E c \in threads : UpdateTx(c)
    \/ \E c \in threads : ViewTx(c)
    \/ \E c \in threads : pc[c] = "fn" /\ TxOperation(c)
    \/ \E c \in threads : FnReturnsNil(c)
    \/ \E c \in threads : FnReturnsError(c, Err("fn error"))
    \/ \E c \in threads : FnPanics(c)
    \/ \E c \in threads : Repanic(c)

Spec == Init /\ [][Next]_vars

\* Callers that enter their transactions through ViewTx only.
NextViewTx ==
    \/ \E ok \in BOOLEAN : NewConnection(ok)
    \/ \E c \in threads : ViewTx(c)
    \/ \E c \in threads : pc[c] = "fn" /\ TxOperation(c)
    \/ \E c \in threads : FnReturnsNil(c)
    \/ \E c \in threads : FnReturnsError(c, Err("fn error"))

SpecViewTx == Init /\ [][NextViewTx]_vars

-----------------------------------------------------------------------------
(* Properties *)

FatalMigrationErrors == {ErrHaveEncryptedAndUnencrypted, ErrHaveEncryptedWithNoKey}

\* The errors of NeedsEncryptionMigration that come before its switch.
EarlyMigrationErrors ==
    {ErrNoConnection, Err("failed to check unencrypted table"),
     Err("failed to check encrypted table")}

\* C1: when NeedsEncryptionMigration reaches its decision, the pair it returns
\* is the one the table gives for the two markers and the key: both markers
\* -> (false, ErrHaveEncryptedAndUnencrypted); unencrypted only with a key ->
\* (true, nil); unencrypted only without a key -> (false, nil); encrypted only
\* without a key -> (false, ErrHaveEncryptedWithNoKey); encrypted only with a
\* key -> (false, nil); neither -> (false, nil).
C1_MigrationDecisionTable ==
    (last.op = "NeedsEncryptionMigration" /\ last.err \notin EarlyMigrationErrors) =>
        LET u == last.haveUnencrypted
            e == last.haveEncrypted
            k == EncryptionKey # "nil"
            out == <<last.result, last.err>>
        IN
        /\ (u /\ e) => out = <<FALSE, ErrHaveEncryptedAndUnencrypted>>
        /\ (u /\ ~e /\ k) => out = <<TRUE, NoErr>>
        /\ (u /\ ~e /\ ~k) => out = <<FALSE, NoErr>>
        /\ (~u /\ e /\ ~k) => out = <<FALSE, ErrHaveEncryptedWithNoKey>>
        /\ (~u /\ e /\ k) => out = <<FALSE, NoErr>>
        /\ (~u /\ ~e) => out = <<FALSE, NoErr>>

\* NeedsEncryptionMigration asked for a migration: the unencrypted marker
\* alone, on a connection with a key.
C1_Witness ==
    /\ last.op = "NeedsEncryptionMigration"
    /\ last.result = TRUE
    /\ last.err = NoErr
    /\ last.haveUnencrypted /\ ~last.haveEncrypted
    /\ EncryptionKey = "key"

\* C2: the stored rows change only in the step in which a function that
\* returned nil is committed; the step in which UpdateTx returns because its
\* function returned an error (or panicked) leaves the stored rows as they
\* are, drops the write set and does not commit.  So after such an UpdateTx
\* the stored state is the state before the call.
C2_FailedUpdateTxLeavesRows ==
    [][/\ rows' # rows =>
            \E c \in threads : pc[c] = "fn" /\ fnRes'[c] = NoErr /\ called'[c] = "commit"
       /\ \A c \in threads :
            (pc[c] = "fn" /\ pc'[c] # "fn" /\ fnRes'[c] # NoErr) =>
                /\ rows' = rows
                /\ writes'[c] = EmptyWrites
                /\ txState'[c] # "committed"]_vars

\* An UpdateTx whose function wrote and then returned an error has returned
\* that error.
C2_Witness ==
    \E c \in threads :
        /\ pc[c] = "idle"
        /\ wrote[c]
        /\ fnRes[c] = Err("fn error")
        /\ ret[c] = Err("fn error")
        /\ txState[c] = "rolledback"

C4_PanicRollsBackThenReraises ==
    [][\A c \in threads :
        /\ (fnRes'[c] = Err("panic") /\ fnRes[c] # Err("panic")) =>
                rows' = rows /\ pc'[c] = "repanic" /\ ret'[c] = Pending
        /\ fnRes'[c] = Err("panic") =>
                /\ called'[c] = "rollback"
                /\ txState'[c] \in {"rolledback", "cancelled"}
                /\ writes'[c] = EmptyWrites
                /\ pc'[c] \in {"repanic", "idle"}
                /\ pc'[c] = "idle" => ret'[c] = Err("panic")]_vars

\* An UpdateTx whose function wrote and then panicked has re-raised the panic.
C4_Witness ==
    \E c \in threads :
        /\ pc[c] = "idle"
        /\ wrote[c]
        /\ fnRes[c] = Err("panic")
        /\ ret[c] = Err("panic")
        /\ txState[c] = "rolledback"

\* C5: with a row committed under id in b, GetObject(b, ConvertToKey(id)) in a
\* transaction that has written nothing succeeds and yields the row's object.
C5_GetObjectByConvertToKey ==
    [][\A c \in threads, b \in Buckets, id \in Ids :
        (/\ txState[c] = "active"
         /\ writes[c] = EmptyWrites
         /\ rows[b][id] # Absent
         /\ GetObject(c, b, ConvertToKey(id))) =>
            /\ last'.err = NoErr
            /\ last'.obj = JsonUnmarshal(rows[b][id])]_vars

\* C6: a create operation (CreateObject, CreateObjectWithId,
\* CreateObjectWithStringId) on an id that the transaction sees in the bucket
\* fails with the duplicate-key error, writes nothing and leaves the stored rows
\* as they are.
C6_CreateOnExistingIdFails ==
    [][\A c \in threads, b \in Buckets, id \in Ids, obj \in Objs :
        (/\ txState[c] = "active"
         /\ Cell(c, b, id) # Absent
         /\ \/ last'.op = "CreateObject" /\ CreateObject(c, b, id, obj)
            \/ last'.op = "CreateObjectWithId" /\ CreateObjectWithId(c, b, id, obj)
            \/ /\ last'.op = "CreateObjectWithStringId"
               /\ CreateObjectWithStringId(c, b, Itoa(id), obj)) =>
            /\ last'.err = Err("duplicate key value violates unique constraint")
            /\ rows' = rows
            /\ writes'[c][b][id] \in {NoWrite, writes[c][b][id]}
            /\ txState'[c] = "failed"]_vars

\* A create operation hit an id that is stored, and the stored row is there.
C6_Witness ==
    /\ last.op \in {"CreateObject", "CreateObjectWithId", "CreateObjectWithStringId"}
    /\ last.err = Err("duplicate key value violates unique constraint")
    /\ \E c \in threads : pc[c] = "fn" /\ txState[c] = "failed"
    /\ \E b \in Buckets, i \in Ids : rows[b][i] # Absent

\* C7: GetObject with the key of an id that the transaction does not see in
\* the bucket (never created, or deleted) fails with an error that is
\* ErrObjectNotFound and carries the bucket name and the key.
C7_MissingKeyIsObjectNotFound ==
    [][\A c \in threads, b \in Buckets, id \in Ids :
        \A key \in {ConvertToKey(id), Itoa(id)} :
            (/\ txState[c] = "active"
             /\ Cell(c, b, id) = Absent
             /\ GetObject(c, b, key)) =>
                /\ IsErrObjectNotFound(last'.err)
                /\ last'.err.bucket = b
                /\ last'.err.key = key]_vars

\* C8: of two GetNextIdentifier calls in a row in one transaction on a bucket
\* that is not empty, the second returns more than the first.
C8_NextIdentifierIncreases ==
    (last.op = "GetNextIdentifier" /\ last.prev >= 2) => last.id > last.prev

\* C9: while encryption is active, a payload that a transaction writes to a
\* bucket is in the envelope form, not plain JSON.
C9_WritesAreEnveloped ==
    [][\A c \in threads, b \in Buckets, i \in Ids :
        (/\ getEncryptionKey # "nil"
         /\ writes'[c][b][i] # writes[c][b][i]
         /\ writes'[c][b][i] \notin {NoWrite, Deleted}) =>
            /\ IsEnvelope(writes'[c][b][i])
            /\ ~IsJson(writes'[c][b][i])]_vars

\* C10: an UpdateTx/ViewTx that follows a NeedsEncryptionMigration that
\* returned one of the two fatal errors fails and begins no transaction.
C10_FatalMigrationStopsUse ==
    [][\A c \in threads :
        (/\ last.op = "NeedsEncryptionMigration"
         /\ last.err \in FatalMigrationErrors
         /\ UpdateTx(c)) =>
            /\ ret'[c] \notin {Pending, NoErr}
            /\ txState'[c] # "active"
            /\ pc'[c] = "idle"]_vars

\* The connection operations that return an error and are not UpdateTx/ViewTx.
ConnectionOps == {"NeedsEncryptionMigration", "BackupTo", "BackupMetadata", "RestoreMetadata"}

-----------------------------------------------------------------------------
(* Concurrent callers of Connection.CreateObject / Connection.CreateObjectWithId *)

\* Two callers on an open connection.
InitConc ==
    /\ RestInit
    /\ DB = "open"
    /\ ctx = "live"
    /\ EncryptionKey \in {"nil", "key"}
    /\ isEncrypted = FALSE
    /\ rows = [b \in Buckets |-> [i \in Ids |-> Absent]]
    /\ threads = Callers
    /\ pc = [c \in Callers |-> "idle"]
    /\ txState = [c \in Callers |-> "none"]
    /\ writes = [c \in Callers |-> EmptyWrites]
    /\ fnRes = [c \in Callers |-> Pending]
    /\ called = [c \in Callers |-> "none"]
    /\ ret = [c \in Callers |-> Pending]
    /\ wrote = [c \in Callers |-> FALSE]
    /\ nextID = [c \in Callers |-> 0]
    /\ last = NoOp

\* Connection.CreateObject, inside the function it passes to UpdateTx:
\* nextID := uint64(connection.GetNextIdentifier(bucketName)).  Ids stay in
\* the range of the model.
ConnectionCreateObjectNextID(c, b) ==
    /\ c \in threads
    /\ pc[c] = "fn"
    /\ txState[c] = "active"
    /\ nextID[c] = 0
    /\ ~wrote[c]
    /\ ConnectionNextIdentifier(b) \in Ids
    /\ nextID' = [nextID EXCEPT ![c] = ConnectionNextIdentifier(b)]
    /\ UNCHANGED <<connVars, rows, restVars, pc, txState, writes, fnRes, called, ret,
                   wrote, last>>

\* The id the function of the wrapper inserts under: Connection.CreateObject
\* uses the id its generator makes of nextID (taken to be nextID itself),
\* Connection.CreateObjectWithId the id it was given.
WrapperId(c, id) == IF nextID[c] # 0 THEN id = nextID[c] ELSE id \in Ids

\* tx.CreateObjectWithId(bucketName, id, obj) of the wrapper succeeds (after
\* waiting for a transaction that holds the row).
ConnectionCreateObjectInsert(c, b, id, obj) ==
    /\ txState[c] = "active"
    /\ ~wrote[c]
    /\ WrapperId(c, id)
    /\ InsertErr(c, b, id) = NoErr
    /\ CreateObjectWithId(c, b, id, obj)

\* tx.CreateObjectWithId of the wrapper fails: the function returns the
\* error, UpdateTx rolls back and returns it.  The failed statement wrote
\* nothing, so the three are taken together.
ConnectionCreateObjectFails(c, b, id) ==
    /\ txState[c] = "active"
    /\ ~wrote[c]
    /\ WrapperId(c, id)
    /\ InsertErr(c, b, id) # NoErr
    /\ FnReturnsError(c, InsertErr(c, b, id))

\* tx.CreateObjectWithId of the wrapper returned nil: the function returns
\* nil and UpdateTx commits.
ConnectionCreateObjectCommit(c) ==
    /\ wrote[c]
    /\ FnReturnsNil(c)

NextConc ==
    \/ \E c \in threads : UpdateTx(c)
    \/ \E c \in threads, b \in Buckets : ConnectionCreateObjectNextID(c, b)
    \/ \E c \in threads, b \in Buckets, id \in Ids, obj \in Objs :
            ConnectionCreateObjectInsert(c, b, id, obj)
    \/ \E c \in threads, b \in Buckets, id \in Ids : ConnectionCreateObjectFails(c, b, id)
    \/ \E c \in threads : ConnectionCreateObjectCommit(c)

SpecConc == InitConc /\ [][NextConc]_vars

-----------------------------------------------------------------------------

\* C11: while the database handle is unset, every connection operation that
\* was called (NeedsEncryptionMigration, BackupTo, BackupMetadata,
\* RestoreMetadata; UpdateTx/ViewTx and with them the CRUD wrappers) has failed
\* with ErrNoConnection, and no transaction was begun.
C11_NoConnectionBeforeOpen ==
    DB = "nil" =>
        /\ last.op \in ConnectionOps => last.err = ErrNoConnection
        /\ \A c \in threads :
                /\ ret[c] # Pending => ret[c] = ErrNoConnection
                /\ txState[c] = "none"

\* C12: an Open that fails on a connection whose handle is unset leaves the
\* handle unset; a NewConnection whose Open fails returns no connection
\* together with the error, the handle unset; and an UpdateTx/ViewTx on a
\* connection whose handle is unset returns ErrNoConnection and begins no
\* transaction.
C12_FailedOpenLeavesNoConnection ==
    [][/\ (DB = "nil" /\ (\E ok \in BOOLEAN : Open(ok)) /\ last'.err # NoErr) =>
            DB' = "nil"
       /\ ((\E ok \in BOOLEAN : NewConnection(ok)) /\ last'.err # NoErr) =>
            DB' = "nil" /\ last'.conn = "nil"
       /\ \A c \in threads :
            (DB = "nil" /\ UpdateTx(c)) =>
                /\ ret'[c] = ErrNoConnection
                /\ txState'[c] = "none"
                /\ pc'[c] = "idle"]_vars

\* NewConnection failed, and the UpdateTx called after it returned
\* ErrNoConnection.
C12_Witness ==
    /\ last.op = "NewConnection"
    /\ last.err = Err("failed to connect to database")
    /\ last.conn = "nil"
    /\ DB = "nil"
    /\ \E c \in threads : ret[c] = ErrNoConnection /\ pc[c] = "idle"

\* C13: Close cancels the connection's context, and the context stays
\* cancelled; with the context cancelled the handle is never open, and an
\* UpdateTx/ViewTx call returns an error, begins no transaction and does not
\* call its function.
C13_NoTransactionAfterClose ==
    [][/\ Close => ctx' = "cancelled"
       /\ ctx = "cancelled" => ctx' = "cancelled"
       /\ ctx' = "cancelled" => DB' # "open"
       /\ \A c \in threads :
            (ctx = "cancelled" /\ UpdateTx(c)) =>
                /\ ret'[c] \notin {Pending, NoErr}
                /\ txState'[c] = "none"
                /\ pc'[c] = "idle"
                /\ fnRes'[c] = Pending]_vars

\* An UpdateTx called after the Close of an open connection failed to begin
\* its transaction.
C13_Witness ==
    /\ last.op = "Close"
    /\ ctx = "cancelled"
    /\ DB = "closed"
    /\ \E c \in threads :
        /\ pc[c] = "idle"
        /\ ret[c] = Err("failed to begin transaction")
        /\ txState[c] = "none"

C15_UpdateReplacesNeverCreates ==
    [][\A c \in threads, b \in Buckets, id \in Ids, obj \in Objs :
        \A key \in {ConvertToKey(id), Itoa(id)} :
            (pc[c] = "fn" /\ txState[c] = "active" /\ UpdateObject(c, b, key, obj)) =>
                IF Cell(c, b, id) # Absent
                THEN /\ last'.err = NoErr
                     /\ IsJson(writes'[c][b][id])
                     /\ JsonUnmarshal(writes'[c][b][id]) = obj
                ELSE /\ writes'[c][b][id] \in {NoWrite, Deleted}
                     /\ rows' = rows]_vars

\* C16: DeleteObject with the key of an id that the transaction does not see
\* in the bucket returns no error and changes neither the transaction's view of
\* the bucket nor the stored rows (so a second delete of a key changes nothing
\* after the first).
C16_DeleteAbsentIsNoOp ==
    [][\A c \in threads, b \in Buckets, id \in Ids :
        \A key \in {ConvertToKey(id), Itoa(id)} :
            (/\ pc[c] = "fn"
             /\ txState[c] = "active"
             /\ Cell(c, b, id) = Absent
             /\ DeleteObject(c, b, key)) =>
                /\ last'.err = NoErr
                /\ writes'[c] = writes[c]
                /\ txState'[c] = "active"
                /\ rows' = rows]_vars

\* C17: Connection.GetNextIdentifier returns to its caller without a panic,
\* and what it returns is 1 (empty bucket, failing query) or the largest
\* stored id of the bucket plus one.
C17_ConnectionNextIdentifierNeverFails ==
    last.op = "Connection.GetNextIdentifier" =>
        /\ last.err = NoErr
        /\ \/ last.id = 1
           \/ \E b \in Buckets :
                /\ rows[b][last.id - 1] # Absent
                /\ \A i \in Ids : i >= last.id => rows[b][i] = Absent

\* C18: a Transaction.GetNextIdentifier whose query fails returns what
\* Connection.GetNextIdentifier returns for a failing query, and on an empty
\* bucket it returns what Connection.GetNextIdentifier returns on it.
C18_SameFallback ==
    \A c \in threads :
        (last.op = "GetNextIdentifier" /\ pc[c] = "fn") =>
            /\ txState[c] \in {"failed", "cancelled"} =>
                    last.id = ConnectionNextIdentifier(NoTable)
            /\ (/\ txState[c] = "active"
                /\ \A b \in Buckets, i \in Ids : Cell(c, b, i) = Absent /\ rows[b][i] = Absent) =>
                    \A b \in Buckets : last.id = ConnectionNextIdentifier(b)

\* Two Connection.CreateObject calls that derived the same next identifier
\* have both returned: one returned nil, the other the duplicate-key error.
SameIdentifierOneWins ==
    \A c, d \in threads :
        (/\ c # d
         /\ pc[c] = "idle" /\ pc[d] = "idle"
         /\ ret[c] # Pending /\ ret[d] # Pending
         /\ nextID[c] # 0 /\ nextID[c] = nextID[d]) =>
            \/ /\ ret[c] = NoErr
               /\ ret[d] = Err("duplicate key value violates unique constraint")
            \/ /\ ret[d] = NoErr
               /\ ret[c] = Err("duplicate key value violates unique constraint")

\* C19: with concurrent Connection.CreateObject (and CreateObjectWithId)
\* calls, a stored object is never overwritten (a bucket holds one object per
\* id, the one stored first); two transactions never both hold a write under
\* the same id; and of two calls that derived the same next identifier exactly
\* one commits and the other returns the duplicate-key error.
C19_ConcurrentCreatesOnePerId ==
    [][/\ \A b \in Buckets, i \in Ids :
            /\ rows[b][i] # Absent => rows'[b][i] = rows[b][i]
            /\ \A c, d \in threads :
                    (c # d /\ writes'[c][b][i] # NoWrite) => writes'[d][b][i] = NoWrite
       /\ SameIdentifierOneWins']_vars

\* Two Connection.CreateObject calls derived the same identifier; the first
\* caller's object is stored and the second caller got the error.
C19_Witness ==
    /\ pc["c1"] = "idle" /\ pc["c2"] = "idle"
    /\ nextID["c1"] = 1 /\ nextID["c2"] = 1
    /\ ret["c1"] = NoErr
    /\ ret["c2"] = Err("duplicate key value violates unique constraint")
    /\ \E b \in Buckets : rows[b][1] # Absent

-----------------------------------------------------------------------------
(* PostgresStore (store.go): a key-value store over table portainer_buckets, *)
(* whose primary key is (bucket_name, key).                                  *)

BucketNames == {"users", "teams"}
StoreKeys == {"k1"}
StoreValues == {"v1", "v2"}

\* The rows of table T at primary key (b, k).
RowsAt(T, b, k) == {r \in T : r.bucket_name = b /\ r.key = k}

\* INSERT ... VALUES (b, k, v) stopped by the primary key: the existing row
\* stays (the statement fails).
InsertWithoutConflictClause(T, b, k, v) ==
    IF RowsAt(T, b, k) # {} THEN T
    ELSE T \cup {[bucket_name |-> b, key |-> k, value |-> v]}

\* INSERT ... VALUES (b, k, v) ON CONFLICT (bucket_name, key) DO UPDATE SET
\* value = v.
InsertOnConflictDoUpdate(T, b, k, v) ==
    (T \ RowsAt(T, b, k)) \cup {[bucket_name |-> b, key |-> k, value |-> v]}

\* DELETE FROM portainer_buckets WHERE bucket_name = b AND key = k.
DeleteFrom(T, b, k) == T \ RowsAt(T, b, k)

\* sync.RWMutex.RLock returns only while no writer holds the lock and no
\* Lock call is waiting for it.
CanRLock(m) == m.writer = "none" /\ m.waiting = {}

\* A Lock that does not wait for the readers to leave.
CanLockIgnoringReaders(m) == m.writer = "none"

\* sync.RWMutex.Lock returns only while nobody holds the lock.
CanLock(m) == m.writer = "none" /\ m.readers = {}

\* The result of a bucket operation.
NoRes == [op |-> "none", bucket_name |-> "-", key |-> "-", value |-> "-", err |-> "nil"]
BucketRes(op, b, k, v, e) ==
    [op |-> op, bucket_name |-> b, key |-> k, value |-> v, err |-> e]

\* The PostgresTx handed to fn.
StoreTxBegun(writeable) ==
    [pc |-> "fn", writeable |-> writeable,
     work |-> IF writeable THEN portainer_buckets ELSE {},
     locks |-> {}, res |-> NoRes, ret |-> "-"]

\* A call that returned e.
StoreTxReturned(e) == [NoStoreTx EXCEPT !.ret = e]

\* View up to the call of fn: s.mu.RLock(), s.db.BeginTx; a failed BeginTx
\* returns its error, and the deferred RUnlock runs.
View(c, beginOk) ==
    /\ storeTx[c].pc = "idle"
    /\ CanRLock(mu)
    /\ IF beginOk
       THEN /\ mu' = [mu EXCEPT !.readers = @ \cup {c}]
            /\ storeTx' = [storeTx EXCEPT ![c] = StoreTxBegun(FALSE)]
       ELSE /\ mu' = mu
            /\ storeTx' = [storeTx EXCEPT ![c] = StoreTxReturned("begin error")]
    /\ UNCHANGED <<dbVars, EncryptionKey, isEncrypted, codec, portainer_buckets>>

\* Update calls s.mu.Lock().
UpdateLock(c) ==
    /\ storeTx[c].pc = "idle"
    /\ mu' = [mu EXCEPT !.waiting = @ \cup {c}]
    /\ storeTx' = [storeTx EXCEPT ![c] = [NoStoreTx EXCEPT !.pc = "lock"]]
    /\ UNCHANGED <<dbVars, EncryptionKey, isEncrypted, codec, portainer_buckets>>

\* Lock returns and Update goes on to the call of fn: s.db.BeginTx; a failed
\* BeginTx returns its error, and the deferred Unlock runs.
Update(c, beginOk) ==
    /\ storeTx[c].pc = "lock"
    /\ CanLock(mu)
    /\ IF beginOk
       THEN /\ mu' = [mu EXCEPT !.writer = c, !.waiting = @ \ {c}]
            /\ storeTx' = [storeTx EXCEPT ![c] = StoreTxBegun(TRUE)]
       ELSE /\ mu' = [mu EXCEPT !.waiting = @ \ {c}]
            /\ storeTx' = [storeTx EXCEPT ![c] = StoreTxReturned("begin error")]
    /\ UNCHANGED <<dbVars, EncryptionKey, isEncrypted, codec, portainer_buckets>>

\* The table as the statements of c's transaction see it: the committed rows
\* and, in a writable transaction, its own writes.
Visible(c) == IF storeTx[c].writeable THEN storeTx[c].work ELSE portainer_buckets

\* The row (b, k) is locked by a transaction that was never ended.
HeldByLeakedTx(b, k) ==
    \E d \in Callers : storeTx[d].pc = "panicked" /\ <<b, k>> \in storeTx[d].locks

\* A bucket operation that changes no row.
StoreRead(c, res) ==
    /\ storeTx' = [storeTx EXCEPT ![c].res = res]
    /\ UNCHANGED <<dbVars, EncryptionKey, isEncrypted, codec, mu, portainer_buckets>>

\* A bucket operation of a writable transaction that leaves table T.
StoreWrite(c, b, k, T, res) ==
    /\ ~HeldByLeakedTx(b, k)
    /\ storeTx' = [storeTx EXCEPT ![c].work = T, ![c].locks = @ \cup {<<b, k>>},
                                  ![c].res = res]
    /\ UNCHANGED <<dbVars, EncryptionKey, isEncrypted, codec, mu, portainer_buckets>>

\* A Put that does not look at the transaction's writeable flag.
PutWithoutWriteableCheck(c, b, k, v) ==
    /\ storeTx[c].pc = "fn"
    /\ StoreWrite(c, b, k, InsertOnConflictDoUpdate(storeTx[c].work, b, k, v),
                  BucketRes("Put", b, k, v, "nil"))

\* PostgresBucket.Put.
Put(c, b, k, v) ==
    /\ storeTx[c].pc = "fn"
    /\ IF ~storeTx[c].writeable
       THEN StoreRead(c, BucketRes("Put", b, k, v, "transaction is read-only"))
       ELSE StoreWrite(c, b, k, InsertOnConflictDoUpdate(storeTx[c].work, b, k, v),
                       BucketRes("Put", b, k, v, "nil"))

\* What PostgresBucket.Get returns: the value of the row, nil when the query
\* finds no row.
GetValue(c, b, k) ==
    IF RowsAt(Visible(c), b, k) = {} THEN "nil"
    ELSE (CHOOSE r \in RowsAt(Visible(c), b, k) : TRUE).value

\* PostgresBucket.Get.
Get(c, b, k) ==
    /\ storeTx[c].pc = "fn"
    /\ StoreRead(c, BucketRes("Get", b, k, GetValue(c, b, k), "nil"))

\* PostgresBucket.Delete.
Delete(c, b, k) ==
    /\ storeTx[c].pc = "fn"
    /\ IF ~storeTx[c].writeable
       THEN StoreRead(c, BucketRes("Delete", b, k, "-", "transaction is read-only"))
       ELSE StoreWrite(c, b, k, DeleteFrom(storeTx[c].work, b, k),
                       BucketRes("Delete", b, k, "-", "nil"))

\* PostgresTx.CreateBucketIfNotExists: the bucket of that name and a nil
\* error, no statement.
CreateBucketIfNotExists(c, b) ==
    /\ storeTx[c].pc = "fn"
    /\ StoreRead(c, BucketRes("CreateBucketIfNotExists", b, "-", "-", "nil"))

\* The lock calls deferred by View and Update.
DeferredUnlock(c) == [mu EXCEPT !.readers = @ \ {c},
                           !.writer = IF @ = c THEN "none" ELSE @]

\* The call of c returned e after fn ran: what is left is what fn last saw
\* and which of View and Update it was.
StoreTxEnded(c, e) ==
    [NoStoreTx EXCEPT !.ret = e, !.writeable = storeTx[c].writeable,
                      !.res = storeTx[c].res]

\* An Update whose Rollback leaves the writes of fn in the store.
StoreFnReturnsKeepingWrites(c, e, commitOk) ==
    /\ storeTx[c].pc = "fn"
    /\ mu' = DeferredUnlock(c)
    /\ storeTx' = [storeTx EXCEPT ![c] =
            StoreTxEnded(c, IF e # "nil" THEN e
                            ELSE IF commitOk THEN "nil" ELSE "commit error")]
    /\ portainer_buckets' =
            IF storeTx[c].writeable THEN storeTx[c].work ELSE portainer_buckets
    /\ UNCHANGED <<dbVars, EncryptionKey, isEncrypted, codec>>

\* fn returns e.  View: an error is returned (the deferred Rollback ends the
\* transaction), nil leads to tx.Commit.  Update: an error leads to
\* tx.Rollback and is returned, nil leads to tx.Commit, which stores the
\* transaction's writes unless it fails.  The deferred unlock runs.
StoreFnReturns(c, e, commitOk) ==
    /\ storeTx[c].pc = "fn"
    /\ mu' = DeferredUnlock(c)
    /\ storeTx' = [storeTx EXCEPT ![c] =
            StoreTxEnded(c, IF e # "nil" THEN e
                            ELSE IF commitOk THEN "nil" ELSE "commit error")]
    /\ portainer_buckets' =
            IF storeTx[c].writeable /\ e = "nil" /\ commitOk
            THEN storeTx[c].work ELSE portainer_buckets
    /\ UNCHANGED <<dbVars, EncryptionKey, isEncrypted, codec>>

\* fn panics: neither View nor Update recovers.  The deferred calls run:
\* View rolls its transaction back and unlocks; Update only unlocks, and its
\* transaction is never ended, so the rows it wrote stay locked.
StoreFnPanics(c) ==
    /\ storeTx[c].pc = "fn"
    /\ mu' = DeferredUnlock(c)
    /\ storeTx' = [storeTx EXCEPT ![c].pc = "panicked", ![c].ret = "panic",
                                  ![c].work = {}, ![c].res = NoRes]
    /\ UNCHANGED <<dbVars, EncryptionKey, isEncrypted, codec, portainer_buckets>>

InitStore == Init /\ EncryptionKey = "nil"

NextStore ==
    \/ \E c \in Callers, beginOk \in BOOLEAN : View(c, beginOk)
    \/ \E c \in Callers : UpdateLock(c)
    \/ \E c \in Callers, beginOk \in BOOLEAN : Update(c, beginOk)
    \/ \E c \in Callers, b \in BucketNames, k \in StoreKeys, v \in StoreValues :
            Put(c, b, k, v)
    \/ \E c \in Callers, b \in BucketNames, k \in StoreKeys : Get(c, b, k)
    \/ \E c \in Callers, b \in BucketNames, k \in StoreKeys : Delete(c, b, k)
    \/ \E c \in Callers, b \in BucketNames : CreateBucketIfNotExists(c, b)
    \/ \E c \in Callers, e \in {"nil", "fn error"}, commitOk \in BOOLEAN :
            StoreFnReturns(c, e, commitOk)
    \/ \E c \in Callers : StoreFnPanics(c)

SpecStore == InitStore /\ [][NextStore]_vars

\* C21: while the function of an Update runs, no function of another Update
\* and no function of a View runs.
C21_UpdateExcludesOthers ==
    \A c \in Callers :
        storeTx[c].pc = "fn" /\ storeTx[c].writeable
            => /\ mu.writer = c
               /\ \A d \in Callers \ {c} : storeTx[d].pc # "fn"

\* The function of an Update runs while another Update waits for the lock.
C21_Witness ==
    \E c \in Callers, d \in Callers :
        /\ storeTx[c].pc = "fn" /\ storeTx[c].writeable
        /\ storeTx[c].res.op = "Put"
        /\ storeTx[d].pc = "lock"

\* The tables of the store: the committed one and the one each writable
\* transaction sees.
StoreTables == {portainer_buckets} \cup {storeTx[c].work : c \in Callers}

\* C22: Put is an upsert.  Right after Put(k, v) succeeded in a writable
\* transaction, Get(k) returns v, whether or not k existed before; Put never
\* fails in a writable transaction; and no table holds two rows with the same
\* (bucket_name, key).
C22_PutIsUpsert ==
    /\ \A T \in StoreTables : \A r1, r2 \in T :
            r1.bucket_name = r2.bucket_name /\ r1.key = r2.key => r1 = r2
    /\ \A c \in Callers :
            storeTx[c].pc = "fn" /\ storeTx[c].writeable /\ storeTx[c].res.op = "Put"
                => /\ storeTx[c].res.err = "nil"
                   /\ GetValue(c, storeTx[c].res.bucket_name, storeTx[c].res.key)
                            = storeTx[c].res.value

\* A Put over a key whose committed row holds another value.
C22_Witness ==
    \E c \in Callers :
        /\ storeTx[c].pc = "fn" /\ storeTx[c].writeable
        /\ storeTx[c].res.op = "Put" /\ storeTx[c].res.err = "nil"
        /\ \E r \in portainer_buckets :
                /\ r.bucket_name = storeTx[c].res.bucket_name
                /\ r.key = storeTx[c].res.key
                /\ r.value # storeTx[c].res.value

-----------------------------------------------------------------------------
(* The codec on bounded inputs *)

\* The values callers marshal: structured values and strings ("", "a", "2.1",
\* "7", "false", "null" and the three bytes "a" in quotes).
Structured == {Bool(TRUE), Bool(FALSE), Integer(0), Integer(12), Struct(1), Struct(2)}
Strings == {String(<<>>), String(<<97>>), String(<<50, 46, 49>>), String(<<55>>),
            String(FalseText), String(NullText), String(<<34, 97, 34>>)}

\* The nonces rand.Reader may deliver.
Nonces == {[i \in 1..NonceSize |-> 0], [i \in 1..NonceSize |-> (17 * i) % 256]}

\* Stored bytes that no MarshalObject call of the run produced: nothing,
\* "false", "true", "x", {"Id":1}, and eleven and thirty bytes of noise.
RawInputs == {<<>>, FalseText, TrueText, <<120>>, IdOpen \o <<49>> \o IdClose,
              [i \in 1..(NonceSize - 1) |-> 200 + i], [i \in 1..30 |-> 5 * i]}

\* The kinds of destination callers pass to UnmarshalObject.
DestKinds == {"bool", "int", "struct", "string"}

\* What a byte may become when it is flipped.
FlipMasks == {1, 255}

\* The positions of the longest envelope.
FlipPositions == 1..(NonceSize + Len(Encode(Struct(1))) + TagSize)

\* The record of a codec call made under the connection's current
\* encryption settings.
CodecCall(op) == [NoCodec EXCEPT !.op = op, !.flag = isEncrypted, !.held = EncryptionKey]

\* A call of MarshalObject(object).
CallMarshalObject(object, nonce) ==
    /\ codec' = [CodecCall("MarshalObject") EXCEPT
                    !.object = object,
                    !.data = MarshalObject(object, nonce),
                    !.sealed = getEncryptionKey]
    /\ UNCHANGED <<dbVars, EncryptionKey, isEncrypted, mu, storeTx, portainer_buckets>>

\* The stored bytes are some bytes that MarshalObject did not produce.
StoredRaw(data) ==
    /\ codec' = [NoCodec EXCEPT !.op = "stored", !.data = data]
    /\ UNCHANGED <<dbVars, EncryptionKey, isEncrypted, mu, storeTx, portainer_buckets>>

\* One byte of the bytes MarshalObject returned is flipped in storage.
FlipByte(i, mask) ==
    /\ codec.op = "MarshalObject"
    /\ i \in 1..Len(codec.data)
    /\ codec' = [codec EXCEPT !.op = "stored", !.tampered = TRUE,
                              !.data[i] = (@ + mask) % 256]
    /\ UNCHANGED <<dbVars, EncryptionKey, isEncrypted, mu, storeTx, portainer_buckets>>

\* A call of UnmarshalObject(data, object) on the stored bytes.
CallUnmarshalObject(d) ==
    /\ codec.op \in {"MarshalObject", "stored"}
    /\ LET r == UnmarshalObject(codec.data, d) IN
       codec' = [CodecCall("UnmarshalObject") EXCEPT
                    !.object = codec.object, !.data = codec.data,
                    !.sealed = codec.sealed, !.tampered = codec.tampered,
                    !.dest = d, !.out = r.out, !.err = r.err, !.e = r.e]
    /\ UNCHANGED <<dbVars, EncryptionKey, isEncrypted, mu, storeTx, portainer_buckets>>

\* A call of IsEncryptedStore.
CallIsEncryptedStore ==
    /\ codec' = [CodecCall("IsEncryptedStore") EXCEPT !.result = getEncryptionKey # "nil"]
    /\ UNCHANGED <<dbVars, EncryptionKey, isEncrypted, mu, storeTx, portainer_buckets>>

NextCodec ==
    \/ \E flag \in BOOLEAN : SetEncrypted(flag)
    \/ \E object \in Structured \cup Strings, nonce \in Nonces :
            CallMarshalObject(object, nonce)
    \/ \E data \in RawInputs : StoredRaw(data)
    \/ \E i \in FlipPositions, mask \in FlipMasks : FlipByte(i, mask)
    \/ \E d \in DestKinds : CallUnmarshalObject(d)
    \/ CallIsEncryptedStore

SpecCodec == Init /\ [][NextCodec]_vars

\* The key in effect at the codec's last call.
KeyInEffect == IF codec.flag THEN codec.held ELSE "nil"

\* C23: a structured (non-string) value marshalled and then unmarshalled
\* under the same encryption settings, into a destination of its type, comes
\* back equal and without error, with no key and with encryption in effect.
C23_StructuredRoundTrip ==
    /\ codec.op = "UnmarshalObject"
    /\ codec.object \in Structured
    /\ ~codec.tampered
    /\ codec.sealed = KeyInEffect
    /\ codec.dest = codec.object.t
    => codec.err = "nil" /\ codec.out = codec.object

\* A struct came back through an encrypted envelope.
C23_Witness ==
    /\ codec.op = "UnmarshalObject"
    /\ codec.object = Struct(2)
    /\ ~codec.tampered
    /\ codec.sealed = "key" /\ KeyInEffect = "key"
    /\ Len(codec.data) = NonceSize + Len(Encode(Struct(2))) + TagSize
    /\ codec.dest = "struct"
    /\ codec.out = Struct(2)

\* UnmarshalObject ran with a key in effect on an input shorter than a nonce.
ShortInputUnderKey ==
    /\ codec.op = "UnmarshalObject"
    /\ KeyInEffect # "nil"
    /\ Len(codec.data) < NonceSize

\* UnmarshalObject failed with the too-short error and decoded nothing.
FailedTooShort ==
    codec.err = "errEncryptedStringTooShort" /\ codec.out = Zero(codec.dest)

\* C24 as stated: with encryption in effect, every input shorter than the
\* nonce fails with the too-short error and yields no decoded value.
C24_EveryShortInputFails == ShortInputUnderKey => FailedTooShort

\* C24: with encryption in effect, every input shorter than the nonce other
\* than the five bytes "false" fails with the too-short error and yields no
\* decoded value; "false" is taken as plaintext, and UnmarshalObject returns
\* nil for it.
C24_ShortInputFailsUnlessFalse ==
    ShortInputUnderKey =>
        IF codec.data = FalseText THEN codec.err = "nil" ELSE FailedTooShort

\* A short input other than "false" was rejected.
C24_Witness ==
    /\ ShortInputUnderKey
    /\ Len(codec.data) = NonceSize - 1
    /\ codec.dest = "struct"
    /\ FailedTooShort

\* C25: when json.Unmarshal fails and the destination is no string,
\* UnmarshalObject returns a non-nil error.
C25_DecodeFailureIsReported ==
    /\ codec.op = "UnmarshalObject"
    /\ codec.e \notin {"nil", "-"}
    /\ codec.dest # "string"
    => codec.err # "nil"

\* UnmarshalObject ran, under the key that sealed it, on an envelope of which
\* one byte was flipped.
TamperedEnvelopeOpened ==
    /\ codec.op = "UnmarshalObject"
    /\ codec.tampered
    /\ codec.sealed # "nil"
    /\ KeyInEffect = codec.sealed

\* C26: flipping any one byte of an envelope produced by MarshalObject with
\* encryption in effect makes UnmarshalObject fail with the authentication
\* error, and the destination receives no value.
C26_TamperedEnvelopeFails ==
    TamperedEnvelopeOpened =>
        codec.err = "Error decrypting text" /\ codec.out = Zero(codec.dest)

\* A byte of the ciphertext of a sealed struct was flipped and the envelope
\* was rejected.
C26_Witness ==
    /\ TamperedEnvelopeOpened
    /\ codec.object = Struct(1)
    /\ codec.dest = "struct"
    /\ \E nonce \in Nonces :
            LET sealed == encrypt(Encode(Struct(1)), codec.sealed, nonce) IN
            /\ Len(sealed) = Len(codec.data)
            /\ \E i \in (NonceSize + 1)..(Len(sealed) - TagSize) : sealed[i] # codec.data[i]
    /\ codec.err = "Error decrypting text"

\* C27: a string is stored as its raw bytes and read back unchanged:
\* MarshalObject(s) with no key in effect is the bytes of s, and
\* UnmarshalObject of these bytes into a string destination yields s.
C27_StringRoundTrip ==
    /\ codec.op = "UnmarshalObject"
    /\ codec.object \in Strings
    /\ ~codec.tampered
    /\ codec.sealed = "nil" /\ KeyInEffect = "nil"
    /\ codec.dest = "string"
    => /\ codec.data = codec.object.v
       /\ codec.err = "nil"
       /\ codec.out = codec.object

\* The encryption flag was on and a key was held at the codec's last call.
FlagOnAndKeyHeld == codec.flag /\ codec.held # "nil"

\* C28: payload encryption is in effect exactly when the flag is on and a key
\* is held.  Otherwise, also with a key held and the flag off, MarshalObject
\* returns the plain encoding, UnmarshalObject decodes the stored bytes as
\* they are, and IsEncryptedStore reports false; with both, MarshalObject
\* returns an envelope and IsEncryptedStore reports true.
C28_EncryptionNeedsFlagAndKey ==
    /\ codec.op = "MarshalObject" =>
            IF FlagOnAndKeyHeld
            THEN /\ Len(codec.data) = NonceSize + Len(PlainEncoding(codec.object)) + TagSize
                 /\ decrypt(codec.data, codec.held).data = PlainEncoding(codec.object)
            ELSE codec.data = PlainEncoding(codec.object)
    /\ codec.op = "UnmarshalObject" /\ ~FlagOnAndKeyHeld =>
            /\ codec.e = Unmarshal(codec.data, codec.dest).e
            /\ codec.e = "nil" => codec.out = Unmarshal(codec.data, codec.dest).out
    /\ codec.op = "IsEncryptedStore" => (codec.result <=> FlagOnAndKeyHeld)

\* With the key held and the flag switched off, MarshalObject returned the
\* plain JSON of a struct.
C28_Witness ==
    /\ codec.op = "MarshalObject"
    /\ codec.held = "key" /\ ~codec.flag
    /\ codec.object = Struct(1)
    /\ codec.data = Encode(Struct(1))

-----------------------------------------------------------------------------
(* GetAll and GetAllWithKeyPrefix (tx.go) *)

RECURSIVE SelectFrom(_, _, _)
\* SELECT data FROM b, as c's transaction sees the table: the rows with ids
\* from..MaxId, each with its id and its payload.
SelectFrom(c, b, from) ==
    IF from > MaxId THEN <<>>
    ELSE (IF Cell(c, b, from) = Absent THEN <<>>
          ELSE <<[id |-> from, data |-> Cell(c, b, from)]>>)
         \o SelectFrom(c, b, from + 1)

\* A scan that ends after the first row.
ScanFirstRowOnly(result, k, failAt) ==
    IF k > 1 \/ result = <<>> THEN [visited |-> <<>>, err |-> NoErr]
    ELSE [visited |-> <<[id |-> result[1].id, obj |-> JsonUnmarshal(result[1].data)]>>,
          err |-> NoErr]

RECURSIVE ScanIgnoringVisitError(_, _, _)
\* A scan that goes on after appendFn returned an error and drops the error.
ScanIgnoringVisitError(result, k, failAt) ==
    IF k > Len(result) THEN [visited |-> <<>>, err |-> NoErr]
    ELSE LET rest == ScanIgnoringVisitError(result, k + 1, failAt) IN
         [visited |-> <<[id |-> result[k].id, obj |-> JsonUnmarshal(result[k].data)]>>
                        \o rest.visited,
          err |-> rest.err]

RECURSIVE Scan(_, _, _)
\* The loop over the result rows from the k-th on: json.Unmarshal of the
\* row, then appendFn, whose failAt-th invocation returns an error (none
\* when failAt is 0).  The first error ends the loop.  The result is the
\* objects appendFn was invoked with, and the error returned.
Scan(result, k, failAt) ==
    IF k > Len(result) THEN [visited |-> <<>>, err |-> NoErr]
    ELSE IF ~IsJson(result[k].data)
         THEN [visited |-> <<>>, err |-> Err("invalid character")]
    ELSE LET visit == [id |-> result[k].id, obj |-> JsonUnmarshal(result[k].data)] IN
         IF k = failAt THEN [visited |-> <<visit>>, err |-> Err("appendFn error")]
         ELSE LET rest == Scan(result, k + 1, failAt) IN
              [visited |-> <<visit>> \o rest.visited, err |-> rest.err]

\* What a scan reports to fn.
ScanResult(op, scan) == [NoOp EXCEPT !.op = op, !.err = scan.err, !.visited = scan.visited]

\* DbTransaction.GetAll.
GetAll(c, b, failAt) ==
    IF TxErr(c) # NoErr
    THEN Statement(c, TxErr(c), writes[c], OpResult("GetAll", TxErr(c), "-", 0))
    ELSE Statement(c, NoErr, writes[c],
                   ScanResult("GetAll", Scan(SelectFrom(c, b, 1), 1, failAt)))

\* The prefixes callers pass: the empty one and the decimal text of an id.
KeyPrefixes == {<<>>} \cup {Itoa(i) : i \in Ids}

\* strings.HasPrefix.
HasPrefix(text, prefix) ==
    Len(prefix) <= Len(text) /\ SubSeq(text, 1, Len(prefix)) = prefix

\* "WHERE id LIKE $1" on the integer column id: the server has no LIKE
\* between an integer and a text, and rejects the statement.
LikeErr(c) ==
    IF TxErr(c) # NoErr THEN TxErr(c)
    ELSE Err("operator does not exist: integer ~~ unknown")

\* DbTransaction.GetAllWithKeyPrefix: tx.tx.Query fails, the loop never runs.
GetAllWithKeyPrefix(c, b, keyPrefix, failAt) ==
    Statement(c, LikeErr(c), writes[c],
              OpResult("GetAllWithKeyPrefix", LikeErr(c), "-", 0))

\* The predicates callers pass to DeleteAllObjects: from the decoded object
\* to the id to delete and whether to delete.
MatchingFns == [Objs -> [id : Ids, ok : BOOLEAN]]

RECURSIVE idsToDeleteIgnoringOk(_, _, _)
\* A loop that appends the id matchingFn returns whatever ok says.
idsToDeleteIgnoringOk(result, k, matchingFn) ==
    IF k > Len(result) THEN <<>>
    ELSE <<matchingFn[JsonUnmarshal(result[k].data)].id>>
         \o idsToDeleteIgnoringOk(result, k + 1, matchingFn)

RECURSIVE idsToDelete(_, _, _)
\* idsToDelete after the loop over the result rows from the k-th on, all of
\* which decode: the ids matchingFn returned with ok, in the order of the
\* rows.
idsToDelete(result, k, matchingFn) ==
    IF k > Len(result) THEN <<>>
    ELSE LET m == matchingFn[JsonUnmarshal(result[k].data)] IN
         (IF m.ok THEN <<m.id>> ELSE <<>>) \o idsToDelete(result, k + 1, matchingFn)

RECURSIVE DeleteEach(_, _, _, _, _)
\* The write set after "DELETE FROM b WHERE id = $1" for the ids from the
\* k-th on: a row the transaction sees is deleted, no row is no error.
DeleteEach(c, b, w, ids, k) ==
    IF k > Len(ids) THEN w
    ELSE DeleteEach(c, b,
                    IF w[b][ids[k]] = Deleted \/ (w[b][ids[k]] = NoWrite /\ rows[b][ids[k]] = Absent)
                    THEN w ELSE [w EXCEPT ![b][ids[k]] = Deleted],
                    ids, k + 1)

\* DbTransaction.DeleteAllObjects: the SELECT, the loop that decodes each
\* row and asks matchingFn, then one DELETE for each id collected.  The
\* loop calls matchingFn with each row it decodes; a row that does not
\* decode ends the operation before any DELETE.
DeleteAllObjects(c, b, matchingFn) ==
    IF TxErr(c) # NoErr
    THEN Statement(c, TxErr(c), writes[c], OpResult("DeleteAllObjects", TxErr(c), "-", 0))
    ELSE LET result == SelectFrom(c, b, 1)
             scan == Scan(result, 1, 0)
             ids == idsToDelete(result, 1, matchingFn)
         IN
         IF scan.err # NoErr
         THEN Statement(c, NoErr, writes[c], ScanResult("DeleteAllObjects", scan))
         ELSE /\ \A k \in 1..Len(ids) :
                      Cell(c, b, ids[k]) # Absent => ~Locked(c, b, ids[k])
              /\ Statement(c, NoErr, DeleteEach(c, b, writes[c], ids, 1),
                           ScanResult("DeleteAllObjects", scan))

\* The operations fn calls in the runs that scan a bucket.
ScanOperation(c) ==
    \/ \E b \in Buckets, id \in Ids, obj \in Objs : CreateObjectWithId(c, b, id, obj)
    \/ \E b \in Buckets, key \in Keys : DeleteObject(c, b, key)
    \/ \E b \in Buckets, failAt \in 0..MaxId : GetAll(c, b, failAt)
    \/ \E b \in Buckets, keyPrefix \in KeyPrefixes, failAt \in 0..MaxId :
            GetAllWithKeyPrefix(c, b, keyPrefix, failAt)
    \/ \E b \in Buckets, matchingFn \in MatchingFns : DeleteAllObjects(c, b, matchingFn)

NextScan ==
    \/ \E connectOk \in BOOLEAN : NewConnection(connectOk)
    \/ \E c \in threads : UpdateTx(c)
    \/ \E c \in threads : pc[c] = "fn" /\ ScanOperation(c)
    \/ \E c \in threads : FnReturnsNil(c)
    \/ \E c \in threads : FnReturnsError(c, Err("fn error"))

SpecScan == Init /\ [][NextScan]_vars

\* The ids of the rows of b that c's transaction sees.
StoredIds(c, b) == {i \in Ids : Cell(c, b, i) # Absent}

\* The visits are one per row of S, each with the row's object.
VisitsExactly(visited, c, b, S) ==
    /\ Len(visited) = Cardinality(S)
    /\ \A i \in S : \E k \in 1..Len(visited) :
            visited[k] = [id |-> i, obj |-> JsonUnmarshal(Cell(c, b, i))]

\* C29: GetAll invokes the visit function exactly once for each object the
\* bucket holds: always when it returns nil, and it returns nil whenever the
\* transaction can run statements and the visit function returns no error.
C29_GetAllVisitsEachOnce ==
    [][\A c \in threads, b \in Buckets, failAt \in 0..MaxId :
            GetAll(c, b, failAt) /\ last'.op = "GetAll" =>
                /\ last'.err = NoErr =>
                        VisitsExactly(last'.visited, c, b, StoredIds(c, b))
                /\ TxErr(c) = NoErr /\ (failAt = 0 \/ failAt > Cardinality(StoredIds(c, b)))
                        => last'.err = NoErr]_vars

\* GetAll visited both objects of a bucket holding two.
C29_Witness ==
    /\ last.op = "GetAll" /\ last.err = NoErr
    /\ Len(last.visited) = 2
    /\ \E c \in threads : pc[c] = "fn" /\ Cardinality(StoredIds(c, "test_table")) = 2

\* The ids of the rows of b whose key, the decimal text of the id, starts
\* with the prefix.
IdsWithPrefix(c, b, keyPrefix) ==
    {i \in StoredIds(c, b) : HasPrefix(Itoa(i), keyPrefix)}

\* C30: GetAllWithKeyPrefix(B, p, ...) on a transaction that can run
\* statements visits exactly the objects of B whose key starts with p.
C30_PrefixScanVisitsMatches ==
    [][\A c \in threads, b \in Buckets, keyPrefix \in KeyPrefixes :
            /\ GetAllWithKeyPrefix(c, b, keyPrefix, 0)
            /\ last'.op = "GetAllWithKeyPrefix"
            /\ TxErr(c) = NoErr
            => /\ last'.err = NoErr
               /\ VisitsExactly(last'.visited, c, b, IdsWithPrefix(c, b, keyPrefix))]_vars

\* The error the visit function returns.
VisitErr == Err("appendFn error")

\* After a scan during which the visit function's failAt-th invocation
\* returns an error: when that invocation took place, it was the last one,
\* the rows visited are the first failAt of the result, and the scan returned
\* the error.
StoppedAt(visited, e, result, failAt) ==
    Len(visited) >= failAt =>
        /\ Len(visited) = failAt
        /\ \A k \in 1..failAt : visited[k].id = result[k].id
        /\ e = VisitErr

\* C31: when the visit function passed to GetAll or GetAllWithKeyPrefix
\* returns an error, the scan stops: no further row is visited, and that
\* error is returned.
C31_VisitErrorStopsScan ==
    [][\A c \in threads, b \in Buckets, failAt \in 1..MaxId :
            /\ GetAll(c, b, failAt) /\ last'.op = "GetAll"
                    => /\ StoppedAt(last'.visited, last'.err, SelectFrom(c, b, 1), failAt)
                       /\ TxErr(c) = NoErr /\ failAt <= Cardinality(StoredIds(c, b))
                                => last'.err = VisitErr
            /\ \A keyPrefix \in KeyPrefixes :
                    GetAllWithKeyPrefix(c, b, keyPrefix, failAt)
                        /\ last'.op = "GetAllWithKeyPrefix"
                    => StoppedAt(last'.visited, last'.err, SelectFrom(c, b, 1), failAt)]_vars

\* GetAll over two objects stopped at the first, whose visit failed.
C31_Witness ==
    /\ last.op = "GetAll" /\ last.err = VisitErr
    /\ Len(last.visited) = 1
    /\ \E c \in threads : pc[c] = "fn" /\ Cardinality(StoredIds(c, "test_table")) = 2

-----------------------------------------------------------------------------
(* The DbTransaction after UpdateTx/ViewTx has returned *)

\* Every operation of DbTransaction.
HandleOperation(c) ==
    \/ TxOperation(c)
    \/ \E b \in Buckets : GetAll(c, b, 0)
    \/ \E b \in Buckets, keyPrefix \in KeyPrefixes : GetAllWithKeyPrefix(c, b, keyPrefix, 0)
    \/ \E b \in Buckets, matchingFn \in MatchingFns : DeleteAllObjects(c, b, matchingFn)

\* The caller kept the handle and calls an operation on it after UpdateTx
\* has returned.
StaleOperation(c) ==
    /\ pc[c] = "idle"
    /\ txState[c] \in Done
    /\ HandleOperation(c)

NextStale ==
    \/ \E ok \in BOOLEAN : NewConnection(ok)
    \/ Close
    \/ \E c \in threads : UpdateTx(c)
    \/ \E c \in threads : ViewTx(c)
    \/ \E c \in threads : pc[c] = "fn" /\ HandleOperation(c)
    \/ \E c \in threads : StaleOperation(c)
    \/ \E c \in threads : FnReturnsNil(c)
    \/ \E c \in threads : FnReturnsError(c, Err("fn error"))
    \/ \E c \in threads : FnPanics(c)
    \/ \E c \in threads : Repanic(c)

SpecStale == Init /\ [][NextStale]_vars

\* The names of the operations of DbTransaction.
HandleOps == {"CreateObjectWithId", "CreateObjectWithStringId", "CreateObject",
              "GetNextIdentifier", "GetObject", "UpdateObject", "DeleteObject",
              "GetAll", "GetAllWithKeyPrefix", "DeleteAllObjects"}

\* The operation reported a failure: an error, or, from GetNextIdentifier,
\* which returns no error, the identifier 0.
OperationFailed(res) ==
    IF res.op = "GetNextIdentifier" THEN res.id = 0 ELSE res.err # NoErr

\* C32: after UpdateTx/ViewTx has returned, every operation on the
\* DbTransaction that was passed to the function fails, invokes no visit
\* function and changes neither the stored rows nor anything a commit could
\* store.
C32_StaleHandleFails ==
    [][\A c \in threads :
            pc[c] = "idle" /\ txState[c] \in Done /\ last'.op \in HandleOps /\ last' # last
            => /\ OperationFailed(last')
               /\ last'.visited = <<>>
               /\ rows' = rows
               /\ writes'[c] = EmptyWrites
               /\ txState'[c] = txState[c]]_vars

\* A DeleteObject on the handle of a committed transaction failed, and the
\* row it names is still stored.
C32_Witness ==
    \E c \in threads :
        /\ pc[c] = "idle" /\ txState[c] = "committed"
        /\ last.op = "DeleteObject" /\ last.err = ErrTxDone
        /\ \A b \in Buckets, i \in Ids : rows[b][i] # Absent

-----------------------------------------------------------------------------

\* C33: when the function passed to UpdateTx returned an error e, UpdateTx
\* has called tx.Rollback and returned e itself, also when the rollback
\* failed.
C33_FnErrorIsReturned ==
    \A c \in threads :
        pc[c] = "idle" /\ fnRes[c] \notin {Pending, NoErr, Err("panic")}
            => ret[c] = fnRes[c] /\ called[c] = "rollback"

\* The function returned an error after Close had cancelled its transaction:
\* the rollback failed, and UpdateTx returned the function's error.
C33_Witness ==
    \E c \in threads :
        /\ pc[c] = "idle"
        /\ fnRes[c] = Err("fn error")
        /\ ret[c] = Err("fn error")
        /\ called[c] = "rollback"
        /\ txState[c] = "cancelled"

\* C34: each UpdateTx/ViewTx call that gets past BeginTxx begins one
\* transaction, at its entry and at no other moment, and that transaction is
\* committed or rolled back when the call returns or re-raises a panic: after
\* the function returned nil, returned an error or panicked, and when the
\* commit failed.
C34_OneTransactionEndToEnd ==
    [][\A c \in threads :
        /\ pc[c] = "idle" /\ pc'[c] = "fn" => txState'[c] = "active"
        /\ txState'[c] = "active" /\ txState[c] # "active"
                => pc[c] = "idle" /\ pc'[c] = "fn"
        /\ pc[c] = "fn" /\ pc'[c] \in {"idle", "repanic"}
                => /\ txState'[c] \in Done
                   /\ called'[c] \in {"commit", "rollback"}
                   /\ writes'[c] = EmptyWrites
        /\ pc[c] = "repanic" => txState[c] \in Done /\ txState'[c] = txState[c]]_vars

\* The commit of a call failed, and its transaction is rolled back.
C34_Witness ==
    \E c \in threads :
        /\ pc[c] = "idle"
        /\ fnRes[c] = NoErr
        /\ called[c] = "commit"
        /\ ret[c] = Err("ErrInFailedTransaction")
        /\ txState[c] = "rolledback"

-----------------------------------------------------------------------------
(* The connection pool under concurrent Connection.CreateObject calls *)

\* db.SetMaxOpenConns(DatabaseMaxOpen): the pool hands out at most this many
\* connections at a time.  The code's 25 is scaled to the callers of the
\* model, one connection for each concurrent call.
DatabaseMaxOpen == Cardinality(Callers)

\* The pool connections in use between two steps: a transaction keeps the
\* connection BeginTxx took until it commits or is rolled back.
PoolInUse == Cardinality({c \in threads : pc[c] = "fn" /\ txState[c] \in {"active", "failed"}})

\* A request for a pool connection is served.
PoolFree == PoolInUse < DatabaseMaxOpen

\* A request made with the connection's context returns: with a connection,
\* or with the context's error once Close has cancelled it.
PoolAnswers == PoolFree \/ ctx = "cancelled" \/ DB # "open"

\* The call of c is inside fn, at connection.GetNextIdentifier(bucketName).
AtGetNextIdentifier(c) == c \in threads /\ pc[c] = "fn" /\ nextID[c] = 0 /\ ~wrote[c]

\* The ids the calls in flight may still take stay in the range of the model.
IdsLeft(b) ==
    Max({0} \cup {i \in Ids : rows[b][i] # Absent}) + Cardinality({c \in threads : pc[c] = "fn"}) < MaxId

\* Connection.CreateObject up to fn: UpdateTx's BeginTxx takes a connection
\* of the pool for the transaction.
PoolBegin(c) ==
    /\ PoolAnswers
    /\ \A b \in Buckets : IdsLeft(b)
    /\ UpdateTx(c)

\* nextID := uint64(connection.GetNextIdentifier(bucketName)) inside fn: the
\* query asks the pool for a connection of its own while the transaction of
\* the call keeps the one it has; its failure gives 1.
PoolGetNextIdentifier(c, b) ==
    /\ AtGetNextIdentifier(c)
    /\ PoolAnswers
    /\ nextID' = [nextID EXCEPT ![c] = ConnectionNextIdentifier(b)]
    /\ UNCHANGED <<connVars, rows, restVars, pc, txState, writes, fnRes, called, ret,
                   wrote, last>>

\* tx.CreateObjectWithId(bucketName, id, obj) with the id made of nextID
\* succeeds.
PoolInsert(c, b, obj) ==
    /\ c \in threads
    /\ pc[c] = "fn"
    /\ nextID[c] # 0
    /\ ~wrote[c]
    /\ InsertErr(c, b, nextID[c]) = NoErr
    /\ CreateObjectWithId(c, b, nextID[c], obj)

\* tx.CreateObjectWithId fails: fn returns the error, UpdateTx rolls back
\* and returns it.
PoolInsertFails(c, b) ==
    /\ c \in threads
    /\ pc[c] = "fn"
    /\ nextID[c] # 0
    /\ ~wrote[c]
    /\ InsertErr(c, b, nextID[c]) # NoErr
    /\ FnReturnsError(c, InsertErr(c, b, nextID[c]))

\* fn returns nil and UpdateTx commits, which gives the connection back.
PoolCommit(c) ==
    /\ wrote[c]
    /\ FnReturnsNil(c)

\* The steps of the call of c.
PoolCall(c) ==
    \/ PoolBegin(c)
    \/ \E b \in Buckets : PoolGetNextIdentifier(c, b)
    \/ \E b \in Buckets, obj \in Objs : PoolInsert(c, b, obj)
    \/ \E b \in Buckets : PoolInsertFails(c, b)
    \/ PoolCommit(c)

\* Concurrent Connection.CreateObject calls on one open connection; the
\* program may close the connection at any time.
NextPool ==
    \/ \E c \in threads : PoolBegin(c)
    \/ \E c \in threads, b \in Buckets : PoolGetNextIdentifier(c, b)
    \/ \E c \in threads, b \in Buckets, obj \in Objs : PoolInsert(c, b, obj)
    \/ \E c \in threads, b \in Buckets : PoolInsertFails(c, b)
    \/ \E c \in threads : PoolCommit(c)
    \/ Close

\* Every call takes its next step when it can; nothing obliges the program
\* to call Close.
SpecPool == InitConc /\ [][NextPool]_vars /\ \A c \in Callers : WF_vars(PoolCall(c))

\* C35: with the pool bounded at DatabaseMaxOpen connections, every
\* Connection.CreateObject call that has begun its transaction eventually
\* returns; none waits forever for the second connection that
\* Connection.GetNextIdentifier needs.
C35_EveryCreateObjectReturns ==
    \A c \in Callers : (pc[c] = "fn") ~> (pc[c] = "idle")

-----------------------------------------------------------------------------
(* DeleteAllObjects *)

\* The ids matchingFn returns with ok for the objects of the rows of b.
ReturnedIds(c, b, matchingFn) ==
    {matchingFn[JsonUnmarshal(Cell(c, b, i))].id :
        i \in {j \in StoredIds(c, b) : matchingFn[JsonUnmarshal(Cell(c, b, j))].ok}}

\* C36: a DeleteAllObjects that returns nil has applied the predicate once
\* to each row of the bucket, and afterwards exactly the rows whose ids the
\* predicate returned with ok=true are absent while every other row of the
\* bucket is as it was; it returns nil whenever the transaction can run
\* statements and every row decodes.
C36_DeleteAllObjectsDeletesReturnedIds ==
    [][\A c \in threads, b \in Buckets, matchingFn \in MatchingFns :
            DeleteAllObjects(c, b, matchingFn) /\ last'.op = "DeleteAllObjects" =>
                /\ last'.err = NoErr =>
                        /\ VisitsExactly(last'.visited, c, b, StoredIds(c, b))
                        /\ \A i \in Ids :
                                Cell(c, b, i)' = IF i \in ReturnedIds(c, b, matchingFn)
                                                 THEN Absent ELSE Cell(c, b, i)
                /\ TxErr(c) = NoErr /\ (\A i \in StoredIds(c, b) : IsJson(Cell(c, b, i)))
                        => last'.err = NoErr]_vars

\* A DeleteAllObjects over a bucket of two rows asked the predicate about
\* both, deleted one and kept the other.
C36_Witness ==
    /\ last.op = "DeleteAllObjects" /\ last.err = NoErr
    /\ Len(last.visited) = 2
    /\ \E c \in threads :
            /\ pc[c] = "fn"
            /\ \E i, j \in Ids :
                    /\ writes[c]["test_table"][i] = Deleted
                    /\ rows["test_table"][i] # Absent
                    /\ Cell(c, "test_table", j) # Absent

-----------------------------------------------------------------------------
(* PostgresStore: View and a failed Update *)

\* The function of a View of c is running.
InView(c) == storeTx[c].pc = "fn" /\ ~storeTx[c].writeable

\* Every Put and Delete on a bucket of a View has failed as read-only.
ViewWritesRejected ==
    \A c \in Callers :
        InView(c) /\ storeTx[c].res.op \in {"Put", "Delete"}
            => storeTx[c].res.err = "transaction is read-only"

\* C37: Put and Delete on a bucket obtained inside View fail with the
\* read-only error, and no step of a View (its begin, the operations of its
\* function, its return or its panic) changes the rows of the store.
C37_ViewIsReadOnly ==
    /\ []ViewWritesRejected
    /\ [][\A c \in Callers :
            (InView(c) \/ InView(c)') /\ storeTx'[c] # storeTx[c]
                => portainer_buckets' = portainer_buckets]_vars

\* A Put inside a View was refused while the store holds a row under the
\* same key with another value.
C37_Witness ==
    \E c \in Callers :
        /\ InView(c)
        /\ storeTx[c].res.op = "Put"
        /\ storeTx[c].res.err = "transaction is read-only"
        /\ \E r \in portainer_buckets :
                /\ r.bucket_name = storeTx[c].res.bucket_name
                /\ r.key = storeTx[c].res.key
                /\ r.value # storeTx[c].res.value

\* The function of an Update of c is running.
InUpdate(c) == storeTx[c].pc = "fn" /\ storeTx[c].writeable

\* The rows a later View reads.
LaterView == portainer_buckets

\* C38: when the function passed to Update returns an error, Update returns
\* that error, the transaction is rolled back and the write lock released;
\* and no step taken while the function of an Update runs, other than its
\* return of nil, changes the rows a later View reads, so none of the Puts
\* and Deletes of a function that returns an error is visible.
C38_FailedUpdateLeavesNoTrace ==
    [][\A c \in Callers :
        /\ \A commitOk \in BOOLEAN :
                InUpdate(c) /\ StoreFnReturns(c, "fn error", commitOk)
                    => /\ storeTx'[c].pc = "idle"
                       /\ storeTx'[c].ret = "fn error"
                       /\ storeTx'[c].work = {} /\ storeTx'[c].locks = {}
                       /\ mu'.writer = "none"
                       /\ LaterView' = LaterView
        /\ InUpdate(c) /\ ~StoreFnReturns(c, "nil", TRUE)
                => LaterView' = LaterView]_vars

\* An Update whose function made a Put and returned an error has returned
\* that error, the lock is free, and the row the Put wrote is not in the
\* store.
C38_Witness ==
    \E c \in Callers :
        /\ storeTx[c].pc = "idle" /\ storeTx[c].writeable
        /\ storeTx[c].ret = "fn error"
        /\ storeTx[c].res.op = "Put" /\ storeTx[c].res.err = "nil"
        /\ mu.writer = "none"
        /\ RowsAt(portainer_buckets, storeTx[c].res.bucket_name, storeTx[c].res.key) = {}

-----------------------------------------------------------------------------
(* NewDatabase *)

\* The store types callers pass: the two NewDatabase accepts and one it does
\* not know.
StoreTypes == {"boltdb", "postgres", "sqlite"}

\* What postgres.NewConnection returns: the connection and a nil error, or
\* (nil, err) when Open fails.
NewConnectionResult(connectOk) ==
    [conn |-> IF connectOk THEN "conn" ELSE "nil",
     err |-> IF connectOk THEN NoErr ELSE Err("failed to connect to database")]

\* What NewDatabase returns.  "boltdb": a boltdb.DbConnection literal and
\* nil.  "postgres": "_, err := postgres.NewConnection(...)" drops the
\* connection, and "return connection, err" returns the named result
\* connection, which nothing has assigned: nil.  Any other type: nil and an
\* error.
NewDatabaseResult(storeType, connectOk) ==
    IF storeType = "boltdb" THEN [conn |-> "boltdb", err |-> NoErr]
    ELSE IF storeType = "postgres"
         THEN [conn |-> "nil", err |-> NewConnectionResult(connectOk).err]
    ELSE [conn |-> "nil", err |-> Err("unknown storage database")]

\* NewDatabase(storeType, storePath, encryptionKey).  The connection the
\* "postgres" case opens is reachable from nowhere: the connection the
\* callers of the model use is not touched.
NewDatabase(storeType, connectOk) ==
    /\ last' = Observed([NoOp EXCEPT !.op = "NewDatabase",
                            !.conn = NewDatabaseResult(storeType, connectOk).conn,
                            !.err = NewDatabaseResult(storeType, connectOk).err])
    /\ UNCHANGED <<connVars, rows, restVars, txVars>>

\* The program obtains its database from NewDatabase, next to the direct
\* use of the postgres connection.
NextDatabase ==
    \/ \E storeType \in StoreTypes, connectOk \in BOOLEAN : NewDatabase(storeType, connectOk)
    \/ Next

SpecDatabase == Init /\ [][NextDatabase]_vars

\* C39: NewDatabase returns a non-nil connection whenever it returns a nil
\* error, for the store types "boltdb" and "postgres"; for an unknown store
\* type it returns an error and no connection.
C39_NewDatabaseReturnsConnection ==
    [][\A storeType \in StoreTypes, connectOk \in BOOLEAN :
            NewDatabase(storeType, connectOk) /\ last'.op = "NewDatabase" =>
                /\ last'.err = NoErr => last'.conn # "nil"
                /\ storeType \notin {"boltdb", "postgres"}
                        => last'.err # NoErr /\ last'.conn = "nil"]_vars

====
